---------------------------- MODULE Spec2Model ----------------------------
(***************************************************************************)
(* Model of the token encryption codec (src/encryption.ts) and of the key  *)
(* rotation service (src/key-rotation.ts).                                 *)
(*                                                                         *)
(* AES-256-GCM (node's crypto module) is modelled symbolically: a          *)
(* ciphertext is the term (key, iv, plaintext), an authentication tag is   *)
(* the term (key, iv, aad, ciphertext).  Decryption recomputes the tag     *)
(* from what the decipher was given and fails unless the bytes given to    *)
(* setAuthTag are the leading bytes of it.  JavaScript's undefined /       *)
(* missing string is the empty string "" wherever the code only tests      *)
(* truthiness.                                                             *)
(***************************************************************************)
EXTENDS Integers, Sequences, FiniteSets, TLC

(***************************************************************************)
(* Bounds of the model.                                                    *)
(***************************************************************************)
NumRecords == 3        \* rows of health_integrations, one caller
MaxRuns == 1           \* rotateKeys() calls of the single caller
MaxClock == 1          \* largest clock value, one caller
NumConcRecords == 1    \* rows of health_integrations, two callers
MaxConcClock == 2      \* largest clock value, two callers
MaxReruns == 2         \* rotateKeys() calls made one after the other
MaxCalls == 2          \* healthRouter calls made in all

(***************************************************************************)
(* Program constants.                                                      *)
(***************************************************************************)
CURRENT_VERSION == 1
\* key-rotation.ts:104 has batchSize = 100; it is scaled down to 2 so that
\* a run pages through several batches of the (small) record store.
batchSize == 2

AAD_CONTEXTS == {"OAUTH_TOKEN", "HEALTH_DATA", "API_KEY"}
allowedKeys == {"provider", "userId", "integrationId"}

\* The value of an object property that is present but undefined.
Undefined == "<undefined>"

\* Error messages thrown by the codec.
ErrEmptyText == "Text to encrypt cannot be empty"
ErrNoKey == "ENCRYPTION_KEY environment variable not configured"
ErrMetadata == "Invalid metadata for AAD. Non-technical keys: "
ErrVersion == "Unsupported encryption version"
\* thrown by decipher.final() of node's crypto when the GCM tag does not verify
ErrAuth == "Unsupported state or unable to authenticate data"
\* thrown by decipher.setAuthTag() of node's crypto
ErrTagLength == "Invalid authentication tag length"
\* the database's answer to a second row with the same keyId
\* (encryption_keys_keyId_unique)
ErrUniqueKeyId == "duplicate key value violates unique constraint"

(***************************************************************************)
(* Symbolic AES-256-GCM.                                                   *)
(***************************************************************************)
\* cipher.update(text) + cipher.final(): the ciphertext of text under (key, iv)
GcmEncrypt(key, iv, text) == [k |-> key, iv |-> iv, p |-> text]

\* cipher.getAuthTag(): the tag binds key, iv, the AAD given to setAAD, and
\* the ciphertext
GcmAuthTag(key, iv, aad, ct) == [k |-> key, iv |-> iv, aad |-> aad, ct |-> ct]

\* cipher.getAuthTag().toString('hex'): the hex text of the 16 bytes of a
\* tag.  A hex text of tag bytes is the tag it was cut from and the number
\* of bytes it spells, counted from the first.
TagHex(tag) == [tag |-> tag, len |-> 16]

\* Buffer.from(authTag, 'hex'): the bytes the hex text spells
TagBuffer(authTag) == [tag |-> authTag.tag, len |-> authTag.len]

\* The tag lengths, in bytes, that decipher.setAuthTag accepts for
\* aes-256-gcm when createDecipheriv was given no authTagLength
\* (encryption.ts 159 and 192 give none).
GcmTagLengths == {4, 8, 12, 13, 14, 15, 16}

\* sha256(aad).digest('hex').substring(0, 16)
AadHash(aad) == "sha256:" \o aad

\* The envelope fields of a failed encrypt (no envelope is returned).
NoEnvelope ==
  [v |-> 0, encrypted |-> GcmEncrypt("", "", ""), iv |-> "",
   authTag |-> TagHex(GcmAuthTag("", "", "", GcmEncrypt("", "", ""))),
   createdAt |-> 0, context |-> "", aadHash |-> "", aadVersion |-> ""]

(***************************************************************************)
(* Technical metadata: an object is the sequence of its <<key, value>>     *)
(* entries in insertion order; given = FALSE is the omitted argument.      *)
(***************************************************************************)
NoMetadata == [given |-> FALSE, entries |-> << >>]
Metadata(entries) == [given |-> TRUE, entries |-> entries]

\* const x = e, then Body(x): e is evaluated once
Once(e, Body(_)) == CHOOSE r \in { Body(x) : x \in {e} } : TRUE

RECURSIVE SeqFilterKeys(_, _)
\* the keys of entries, in order, that are not in allowed
SeqFilterKeys(entries, allowed) ==
  IF entries = << >> THEN << >>
  ELSE LET k == Head(entries)[1]
           rest == SeqFilterKeys(Tail(entries), allowed)
       IN  IF k \in allowed THEN rest ELSE <<k>> \o rest

\* Faulty variant of validateTechnicalMetadata: only the first key that is
\* not allowed is reported.
validateTechnicalMetadata_FirstOnly(metadata) ==
  LET invalidKeys == SeqFilterKeys(metadata.entries, allowedKeys)
  IN  [isValid |-> Len(invalidKeys) = 0,
       invalidKeys |-> IF invalidKeys = << >> THEN << >>
                       ELSE <<Head(invalidKeys)>>]

validateTechnicalMetadata(metadata) ==
  LET invalidKeys == SeqFilterKeys(metadata.entries, allowedKeys)
  IN  [isValid |-> Len(invalidKeys) = 0, invalidKeys |-> invalidKeys]

\* a.localeCompare(b) < 0 on the whitelisted keys:
\* "integrationId" < "provider" < "userId"
KeyRank(k) ==
  CASE k = "integrationId" -> 1
    [] k = "provider" -> 2
    [] k = "userId" -> 3
    [] OTHER -> 4

RECURSIVE InsertSorted(_, _)
InsertSorted(e, sorted) ==
  IF sorted = << >> THEN <<e>>
  ELSE IF KeyRank(e[1]) < KeyRank(Head(sorted)[1])
       THEN <<e>> \o sorted
       ELSE <<Head(sorted)>> \o InsertSorted(e, Tail(sorted))

RECURSIVE SortEntries(_)
\* Array.prototype.sort is stable: equal keys keep their order
SortEntries(entries) ==
  IF entries = << >> THEN << >>
  ELSE Once(SortEntries(SubSeq(entries, 1, Len(entries) - 1)),
            LAMBDA rest : InsertSorted(entries[Len(entries)], rest))

RECURSIVE Join(_, _)
\* Array.prototype.join
Join(strs, sep) ==
  IF strs = << >> THEN ""
  ELSE IF Len(strs) = 1 THEN strs[1]
       ELSE strs[1] \o sep \o Join(Tail(strs), sep)

\* Faulty variant of metadataEntries: the entries are not sorted.
metadataEntries_Unsorted(metadata) ==
  LET defined == SelectSeq(metadata.entries, LAMBDA e : e[2] # Undefined)
  IN  [i \in 1..Len(defined) |-> defined[i][1] \o "=" \o defined[i][2]]

\* lines 85-88: entries with a defined value, sorted by key, as "k=v"
metadataEntries(metadata) ==
  LET defined == SelectSeq(metadata.entries, LAMBDA e : e[2] # Undefined)
      sorted == SortEntries(defined)
  IN  [i \in 1..Len(sorted) |-> sorted[i][1] \o "=" \o sorted[i][2]]

\* `${AAD_CONTEXTS[context]}::v${CURRENT_VERSION}`
BaseAad(context) == context \o "::v" \o ToString(CURRENT_VERSION)

\* lines 73-94: the AAD string given to cipher.setAAD
aadString(context, metadata) ==
  Once(metadataEntries(metadata), LAMBDA entries :
    IF metadata.given /\ Len(entries) > 0
    THEN BaseAad(context) \o "::" \o Join(entries, "|")
    ELSE BaseAad(context))

(***************************************************************************)
(* encrypt(text, context, metadata), reading process.env.ENCRYPTION_KEY    *)
(* (encryptionKey), crypto.randomBytes(16) (iv) and new Date() (now).      *)
(***************************************************************************)
Throw(msg) == [ok |-> FALSE, err |-> msg, env |-> NoEnvelope]

\* lines 66-137: the cipher is created and, with a context, given the AAD
Encipher(text, context, metadata, encryptionKey, iv, now) ==
  IF context # ""
  THEN IF metadata.given /\ ~validateTechnicalMetadata(metadata).isValid
       THEN Throw(ErrMetadata
                    \o Join(validateTechnicalMetadata(metadata).invalidKeys, ", "))
       ELSE LET aad == aadString(context, metadata)
                encrypted == GcmEncrypt(encryptionKey, iv, text)
            IN  [ok |-> TRUE, err |-> "",
                 env |-> [v |-> CURRENT_VERSION,
                          encrypted |-> encrypted,
                          iv |-> iv,
                          authTag |-> TagHex(GcmAuthTag(encryptionKey, iv, aad,
                                                        encrypted)),
                          createdAt |-> now,
                          context |-> context,
                          aadHash |-> AadHash(aad),
                          aadVersion |-> BaseAad(context)]]
  ELSE LET encrypted == GcmEncrypt(encryptionKey, iv, text)
       IN  [ok |-> TRUE, err |-> "",
            env |-> [v |-> CURRENT_VERSION,
                     encrypted |-> encrypted,
                     iv |-> iv,
                     authTag |-> TagHex(GcmAuthTag(encryptionKey, iv, "",
                                                   encrypted)),
                     createdAt |-> now,
                     context |-> "",
                     aadHash |-> "",
                     aadVersion |-> ""]]

\* Faulty variant of encrypt: the key is tested before the text.
encrypt_KeyFirst(text, context, metadata, encryptionKey, iv, now) ==
  IF encryptionKey = "" THEN Throw(ErrNoKey)
  ELSE IF text = "" THEN Throw(ErrEmptyText)
  ELSE Encipher(text, context, metadata, encryptionKey, iv, now)

encrypt(text, context, metadata, encryptionKey, iv, now) ==
  IF text = "" THEN Throw(ErrEmptyText)
  ELSE IF encryptionKey = "" THEN Throw(ErrNoKey)
  ELSE Encipher(text, context, metadata, encryptionKey, iv, now)

(***************************************************************************)
(* decryptWithKey(encryptedData, key) and decrypt(encryptedData).          *)
(***************************************************************************)
Fail(msg) == [ok |-> FALSE, err |-> msg, text |-> ""]

\* decipher.setAuthTag(buffer) followed by decipher.final(): setAuthTag
\* throws for a length GCM does not allow; final() throws unless the bytes
\* given are the leading bytes of the tag computed over key, iv, AAD and
\* ciphertext.  "" is no exception.
VerifyAuthTag(buffer, computed) ==
  IF buffer.len \notin GcmTagLengths THEN ErrTagLength
  ELSE IF buffer.tag # computed THEN ErrAuth
  ELSE ""

\* Faulty variant of Decipher: setAAD is never called.
Decipher_NoAad(encryptedData, key) ==
  LET err == VerifyAuthTag(TagBuffer(encryptedData.authTag),
                           GcmAuthTag(key, encryptedData.iv, "",
                                      encryptedData.encrypted))
  IN  IF err = ""
      THEN [ok |-> TRUE, err |-> "", text |-> encryptedData.encrypted.p]
      ELSE Fail(err)

\* lines 188-205: the decipher is given key, iv, the stored aadVersion as
\* AAD (only when context and aadVersion are set) and the stored tag;
\* final() throws unless the tag verifies
Decipher(encryptedData, key) ==
  LET aad == IF encryptedData.context # "" /\ encryptedData.aadVersion # ""
             THEN encryptedData.aadVersion
             ELSE ""
      err == VerifyAuthTag(TagBuffer(encryptedData.authTag),
                           GcmAuthTag(key, encryptedData.iv, aad,
                                      encryptedData.encrypted))
  IN  IF err = ""
      THEN [ok |-> TRUE, err |-> "", text |-> encryptedData.encrypted.p]
      ELSE Fail(err)

decryptWithKey(encryptedData, key) ==
  IF encryptedData.v # CURRENT_VERSION THEN Fail(ErrVersion)
  ELSE Decipher(encryptedData, key)

decrypt(encryptedData, encryptionKey) ==
  IF encryptionKey = "" THEN Fail(ErrNoKey)
  ELSE IF encryptedData.v # CURRENT_VERSION THEN Fail(ErrVersion)
  ELSE Decipher(encryptedData, encryptionKey)

(***************************************************************************)
(* JSON.  A text column holds "" (empty), a text JSON.parse rejects, or    *)
(* the serialisation of an envelope.  Token payloads are the texts         *)
(* JSON.stringify produces for two token objects; any other plaintext is   *)
(* rejected by JSON.parse.                                                 *)
(***************************************************************************)
EmptyText == [text |-> "", env |-> NoEnvelope]
CorruptText == [text |-> "corrupt", env |-> NoEnvelope]
\* JSON.stringify(envelope)
StringifyEnvelope(env) == [text |-> "json", env |-> env]
\* JSON.parse(text) as EncryptedData
ParseEnvelope(s) ==
  IF s.text = "json" THEN [ok |-> TRUE, env |-> s.env]
  ELSE [ok |-> FALSE, env |-> NoEnvelope]

TokenObjects == {[access_token |-> "a"], [access_token |-> "b"]}
\* JSON.stringify(tokens)
StringifyTokens(tokens) == "{\"access_token\":\"" \o tokens.access_token \o "\"}"
NotJson == "secret data"
\* JSON.parse(decrypted)
ParseTokens(text) ==
  IF \E t \in TokenObjects : StringifyTokens(t) = text
  THEN [ok |-> TRUE,
        tokens |-> CHOOSE t \in TokenObjects : StringifyTokens(t) = text]
  ELSE [ok |-> FALSE, tokens |-> [access_token |-> ""]]

(***************************************************************************)
(* errors.ts.  A value that can be thrown is a record: the classes it is   *)
(* an instance of, and its code, message, name and metadata properties.    *)
(***************************************************************************)
\* a value that is not an Error, with whatever properties
Value(message, name, isRetryable) ==
  [instanceOf |-> {}, code |-> "", message |-> message, name |-> name,
   metadata |-> [isRetryable |-> isRetryable, statusCode |-> 0]]

\* new Error(message), its name reassigned or not; it has no metadata
Error(message, name) ==
  [instanceOf |-> {"Error"}, code |-> "", message |-> message, name |-> name,
   metadata |-> [isRetryable |-> FALSE, statusCode |-> 0]]

\* new AppError(code, message, metadata)
AppError(code, message, metadata) ==
  [instanceOf |-> {"Error", "AppError"}, code |-> code, message |-> message,
   name |-> "AppError", metadata |-> metadata]

\* new RateLimitError(message)
RateLimitError(message) ==
  [AppError("RATE_LIMITED", message, [isRetryable |-> FALSE, statusCode |-> 429])
     EXCEPT !.instanceOf = @ \cup {"RateLimitError"}, !.name = "RateLimitError"]

\* createError(code, message, isRetryable)
createError(code, message, isRetryable) ==
  AppError(code, message, [isRetryable |-> isRetryable, statusCode |-> 0])

UpperCaseLetters == "ABCDEFGHIJKLMNOPQRSTUVWXYZ"
LowerCaseLetters == "abcdefghijklmnopqrstuvwxyz"

LowerChar(c) ==
  IF \E i \in 1..Len(UpperCaseLetters) : SubSeq(UpperCaseLetters, i, i) = c
  THEN LET i == CHOOSE j \in 1..Len(UpperCaseLetters) :
                  SubSeq(UpperCaseLetters, j, j) = c
       IN  SubSeq(LowerCaseLetters, i, i)
  ELSE c

RECURSIVE toLowerCase(_)
\* String.prototype.toLowerCase
toLowerCase(str) ==
  IF str = "" THEN ""
  ELSE LowerChar(SubSeq(str, 1, 1)) \o toLowerCase(SubSeq(str, 2, Len(str)))

\* String.prototype.includes
includes(str, search) ==
  \E i \in 1..(Len(str) - Len(search) + 1) :
    SubSeq(str, i, i + Len(search) - 1) = search

\* lines 92-135: the tests on the lower-cased message and name
MatchesRetryableText(error) ==
  LET message == toLowerCase(error.message)
      name == toLowerCase(error.name)
  IN  IF \/ includes(message, "timeout")
         \/ includes(message, "network")
         \/ includes(message, "connection")
         \/ includes(message, "econnrefused")
         \/ includes(message, "enotfound")
         \/ includes(message, "temporarily")
         \/ includes(message, "busy")
      THEN TRUE
      ELSE IF \/ includes(message, "rate limit")
              \/ includes(message, "throttl")
              \/ includes(message, "too many requests")
      THEN TRUE
      ELSE IF \/ includes(message, "service unavailable")
              \/ includes(message, "bad gateway")
              \/ includes(message, "gateway timeout")
      THEN TRUE
      ELSE IF \/ includes(name, "econnrefused")
              \/ includes(name, "etimedout")
              \/ includes(name, "enotfound")
      THEN TRUE
      ELSE FALSE

\* Faulty variant of isRetryableError: an AppError is classified by its
\* message and name like any other Error.
isRetryableError_NoAppError(error) ==
  IF "Error" \notin error.instanceOf THEN FALSE
  ELSE MatchesRetryableText(error)

isRetryableError(error) ==
  IF "AppError" \in error.instanceOf THEN error.metadata.isRetryable
  ELSE IF "Error" \notin error.instanceOf THEN FALSE
  ELSE MatchesRetryableText(error)

(***************************************************************************)
(* State.                                                                  *)
(***************************************************************************)
Procs == {"A", "B"}          \* callers of rotateKeys()
IVs == {"iv1", "iv2"}        \* values of crypto.randomBytes(16)

VARIABLES
  ENCRYPTION_KEY,      \* process.env.ENCRYPTION_KEY ("" when not configured)
  now,                 \* the last value read from the clock
  encryptionKeys,      \* table encryption_keys, in insertion order
  healthIntegrations,  \* table health_integrations, in storage order
  runs,                \* number of rotateKeys() calls made so far
  pc,                  \* per caller: where its rotateKeys() call stands
  newKeyId,            \* per caller: rotateKeys' newKeyId
  newKey,              \* per caller: rotateKeys' newKey
  currentKey,          \* per caller: rotateKeys' encryptionKey / currentKey
  offset,              \* per caller: migrateDataToNewKey's offset
  integrations,        \* per caller: the batch read by the last select
  idx,                 \* per caller: position of the for loop in the batch
  migratedCount,       \* per caller
  failedCount,         \* per caller
  startStore,          \* per caller: health_integrations when the run began
  startKeys,           \* per caller: encryption_keys when the run began
  storeFailed,         \* per caller: ids whose update was rejected by the db
  codec,               \* a consumer's use of the codec: encrypt, then decrypt
  retry,               \* a caught value and what isRetryableError makes of it
  thrown,              \* per caller: the message rotateKeys() threw, or ""
  visited,             \* per caller: ids the for loop has taken up, in order
  demoted,             \* keyIds whose isPrimary an update has set to false
  appWrites,           \* id -> the token text the application stored last
  healthMetrics,       \* table health_metrics
  syncLogs,            \* table sync_logs, in insertion order
  calls                \* per session: the healthRouter call it has made

vars == <<ENCRYPTION_KEY, now, encryptionKeys, healthIntegrations, runs, pc,
          newKeyId, newKey, currentKey, offset, integrations, idx,
          migratedCount, failedCount, startStore, startKeys, storeFailed,
          codec, retry, thrown, visited, demoted, appWrites,
          healthMetrics, syncLogs, calls>>

\* what healthRouter reads and writes besides health_integrations
routerVars == <<healthMetrics, syncLogs, calls>>

\* what healthRouter leaves alone
rotationVars ==
  <<ENCRYPTION_KEY, now, encryptionKeys, runs, pc, newKeyId, newKey,
    currentKey, offset, integrations, idx, migratedCount, failedCount,
    startStore, startKeys, storeFailed, codec, retry, thrown, visited,
    demoted, appWrites>>

(***************************************************************************)
(* Rows.                                                                   *)
(***************************************************************************)
\* Faulty variant of KeyRecord: every row is written as the primary key.
KeyRecord_Primary(keyId, isPrimary, at) ==
  [keyId |-> keyId, keyVersion |-> 1, isActive |-> TRUE,
   isPrimary |-> TRUE, algorithm |-> "AES-256-GCM", activatedAt |-> at]

\* an encryption_keys row (its random id and createdAt are left out: no
\* code reads them)
KeyRecord(keyId, isPrimary, at) ==
  [keyId |-> keyId, keyVersion |-> 1, isActive |-> TRUE,
   isPrimary |-> isPrimary, algorithm |-> "AES-256-GCM", activatedAt |-> at]

\* the technical metadata rotation passes to encrypt (lines 137-141)
RowMetadata(integration) ==
  Metadata(<< <<"provider", integration.provider>>,
              <<"userId", ToString(integration.userId)>>,
              <<"integrationId", integration.id>> >>)

IntegrationRow(i, tokens) ==
  [id |-> "int" \o ToString(i), userId |-> i, provider |-> "GARMIN",
   encryptedTokens |-> tokens,
   tokenMetadata |-> [keyId |-> "", rotatedAt |-> 0]]

\* The token columns a stored row can hold before any rotation: empty, not
\* parseable, or written by encrypt under the key "k0".
StoredTokens(row) ==
  LET t1 == StringifyTokens([access_token |-> "a"])
      t2 == StringifyTokens([access_token |-> "b"])
  IN  { EmptyText,
        CorruptText,
        StringifyEnvelope(encrypt(t1, "", NoMetadata, "k0", "iv0", 0).env),
        StringifyEnvelope(encrypt(t2, "OAUTH_TOKEN", NoMetadata, "k0", "iv0", 0).env),
        StringifyEnvelope(encrypt(t1, "OAUTH_TOKEN", RowMetadata(row), "k0", "iv0", 0).env),
        StringifyEnvelope(encrypt(NotJson, "", NoMetadata, "k0", "iv0", 0).env) }

\* every store of n rows, row i holding one of StoredTokens
StoresOfSize(n) ==
  LET all == UNION { StoredTokens(IntegrationRow(i, EmptyText)) : i \in 1..n }
      ok(s) == \A i \in 1..n : s[i] \in StoredTokens(IntegrationRow(i, EmptyText))
  IN  { [i \in 1..n |-> IntegrationRow(i, s[i])] :
          s \in { t \in [1..n -> all] : ok(t) } }

\* every store of at most n rows
InitialStores(n) == UNION { StoresOfSize(m) : m \in 0..n }

\* No codec call made yet.
CodecIdle ==
  [stage |-> "idle", text |-> "", context |-> "", metadata |-> NoMetadata,
   enc |-> Throw(""), envelope |-> NoEnvelope, altered |-> "none",
   fn |-> "", key |-> "", dec |-> Fail("")]

\* Nothing has been thrown.
NothingCaught ==
  [stage |-> "none", error |-> Value("", "", FALSE), result |-> FALSE]

Sessions == {"s1", "s2"}     \* requests to healthRouter that can be open at once
Users == {1, 2}              \* ctx.user.id of the callers

\* No healthRouter call made in this session.  frequency, enabled and limit
\* are the input's fields; provider is integration[0].provider; rows, logs
\* and success are what the procedure returned, error what it threw; n
\* counts the calls the session has made.
NoCall ==
  [op |-> "", stage |-> "idle", user |-> 0, integrationId |-> "",
   frequency |-> "", enabled |-> FALSE, limit |-> 0, provider |-> "",
   rows |-> << >>, logs |-> << >>, success |-> FALSE, error |-> "",
   n |-> 0]

\* nothing has called healthRouter; the tables it alone uses are empty
NoRouterCalls ==
  /\ healthMetrics = << >>
  /\ syncLogs = << >>
  /\ calls = [s \in Sessions |-> NoCall]

\* The state before any call: one primary key is registered.
InitWith(envKeys, stores) ==
  /\ ENCRYPTION_KEY \in envKeys
  /\ now = 1
  /\ encryptionKeys = << KeyRecord("key_0", TRUE, 0) >>
  /\ healthIntegrations \in stores
  /\ runs = 0
  /\ pc = [p \in Procs |-> "idle"]
  /\ newKeyId = [p \in Procs |-> ""]
  /\ newKey = [p \in Procs |-> ""]
  /\ currentKey = [p \in Procs |-> ""]
  /\ offset = [p \in Procs |-> 0]
  /\ integrations = [p \in Procs |-> << >>]
  /\ idx = [p \in Procs |-> 0]
  /\ migratedCount = [p \in Procs |-> 0]
  /\ failedCount = [p \in Procs |-> 0]
  /\ startStore = [p \in Procs |-> << >>]
  /\ startKeys = [p \in Procs |-> << >>]
  /\ storeFailed = [p \in Procs |-> {}]
  /\ codec = CodecIdle
  /\ thrown = [p \in Procs |-> ""]
  /\ visited = [p \in Procs |-> << >>]
  /\ demoted = {}
  /\ appWrites = << >>

Init ==
  /\ InitWith({"", "k0"}, InitialStores(NumRecords))
  /\ retry = NothingCaught
  /\ NoRouterCalls

(***************************************************************************)
(* rotateKeys(), one action per database round trip.                       *)
(***************************************************************************)
\* encryption.ts 211-213: crypto.randomBytes(32) as hex.  The n-th generated
\* key is a fresh name, different from "k0" and from every other generated key.
generateNewKey(n) == "k" \o ToString(n)

Min(a, b) == IF a < b THEN a ELSE b

\* `key_${Date.now()}`
KeyIdAt(t) == "key_" \o ToString(t)

\* Faulty variant of StartRotation: the key's row is inserted before the
\* configuration is tested.
StartRotation_InsertFirst(p, maxClock) ==
  /\ pc[p] = "idle"
  /\ runs' = runs + 1
  /\ \E t \in now..maxClock :
       /\ now' = t
       /\ newKeyId' = [newKeyId EXCEPT ![p] = KeyIdAt(t)]
       /\ newKey' = [newKey EXCEPT ![p] = generateNewKey(runs + 1)]
       /\ currentKey' = [currentKey EXCEPT ![p] = ENCRYPTION_KEY]
       /\ startStore' = [startStore EXCEPT ![p] = healthIntegrations]
       /\ startKeys' = [startKeys EXCEPT ![p] = encryptionKeys]
       /\ storeFailed' = [storeFailed EXCEPT ![p] = {}]
       /\ offset' = [offset EXCEPT ![p] = 0]
       /\ migratedCount' = [migratedCount EXCEPT ![p] = 0]
       /\ failedCount' = [failedCount EXCEPT ![p] = 0]
       /\ integrations' = [integrations EXCEPT ![p] = << >>]
       /\ idx' = [idx EXCEPT ![p] = 0]
       /\ visited' = [visited EXCEPT ![p] = << >>]
       /\ IF \E i \in 1..Len(encryptionKeys) :
               encryptionKeys[i].keyId = KeyIdAt(t)
          THEN /\ pc' = [pc EXCEPT ![p] = "thrown"]
               /\ thrown' = [thrown EXCEPT ![p] = ErrUniqueKeyId]
               /\ UNCHANGED encryptionKeys
          ELSE /\ encryptionKeys' =
                    Append(encryptionKeys, KeyRecord(KeyIdAt(t), FALSE, t))
               /\ IF ENCRYPTION_KEY = ""
                  THEN /\ pc' = [pc EXCEPT ![p] = "thrown"]
                       /\ thrown' = [thrown EXCEPT ![p] = ErrNoKey]
                  ELSE /\ pc' = [pc EXCEPT ![p] = "select"]
                       /\ thrown' = [thrown EXCEPT ![p] = ""]
  /\ UNCHANGED <<routerVars, appWrites, demoted, retry, codec, ENCRYPTION_KEY,
                 healthIntegrations>>

\* lines 26-52: read the key and the clock, generate the new key, insert its
\* metadata row.  The insert is rejected when keyId is already in the table
\* (encryption_keys_keyId_unique) and rotateKeys throws.
StartRotation(p, maxClock) ==
  /\ pc[p] = "idle"
  /\ runs' = runs + 1
  /\ \E t \in now..maxClock :
       /\ now' = t
       /\ IF ENCRYPTION_KEY = ""
          THEN /\ pc' = [pc EXCEPT ![p] = "thrown"]
               /\ thrown' = [thrown EXCEPT ![p] = ErrNoKey]
               /\ UNCHANGED <<encryptionKeys, newKeyId, newKey, currentKey,
                              offset, migratedCount, failedCount, startStore,
                              startKeys, storeFailed, integrations, idx,
                              visited>>
          ELSE /\ newKeyId' = [newKeyId EXCEPT ![p] = KeyIdAt(t)]
               /\ newKey' = [newKey EXCEPT ![p] = generateNewKey(runs + 1)]
               /\ currentKey' = [currentKey EXCEPT ![p] = ENCRYPTION_KEY]
               /\ startStore' = [startStore EXCEPT ![p] = healthIntegrations]
               /\ startKeys' = [startKeys EXCEPT ![p] = encryptionKeys]
               /\ storeFailed' = [storeFailed EXCEPT ![p] = {}]
               /\ offset' = [offset EXCEPT ![p] = 0]
               /\ migratedCount' = [migratedCount EXCEPT ![p] = 0]
               /\ failedCount' = [failedCount EXCEPT ![p] = 0]
               /\ integrations' = [integrations EXCEPT ![p] = << >>]
               /\ idx' = [idx EXCEPT ![p] = 0]
               /\ visited' = [visited EXCEPT ![p] = << >>]
               /\ IF \E i \in 1..Len(encryptionKeys) :
                       encryptionKeys[i].keyId = KeyIdAt(t)
                  THEN /\ pc' = [pc EXCEPT ![p] = "thrown"]
                       /\ thrown' = [thrown EXCEPT ![p] = ErrUniqueKeyId]
                       /\ UNCHANGED encryptionKeys
                  ELSE /\ pc' = [pc EXCEPT ![p] = "select"]
                       /\ thrown' = [thrown EXCEPT ![p] = ""]
                       /\ encryptionKeys' =
                            Append(encryptionKeys, KeyRecord(KeyIdAt(t), FALSE, t))
  /\ UNCHANGED <<routerVars, appWrites, demoted, retry, codec, ENCRYPTION_KEY,
                 healthIntegrations>>

\* lines 112-118: select ... limit batchSize offset offset; an empty batch
\* ends the scan.  The select has no ORDER BY; rows come in storage order,
\* which updates of non-key columns do not change.
SelectBatch(p) ==
  /\ pc[p] = "select"
  /\ LET rows == SubSeq(healthIntegrations, offset[p] + 1,
                        Min(offset[p] + batchSize, Len(healthIntegrations)))
     IN  /\ integrations' = [integrations EXCEPT ![p] = rows]
         /\ idx' = [idx EXCEPT ![p] = 1]
         /\ pc' = [pc EXCEPT ![p] = IF Len(rows) = 0 THEN "cutover" ELSE "process"]
  /\ UNCHANGED <<routerVars, appWrites, demoted, visited, thrown, retry,
                 codec, ENCRYPTION_KEY, now, encryptionKeys, healthIntegrations, runs,
                 newKeyId, newKey, currentKey, offset, migratedCount,
                 failedCount, startStore, startKeys, storeFailed>>

\* lines 124-142: what the try block computes for one row before the update.
\* kind is "skip" (continue), "throw" (an exception reaches the catch), or
\* "update" with the re-encrypted envelope.
Reencrypt(integration, curKey, encryptionKey, iv, at) ==
  IF integration.encryptedTokens.text = ""
  THEN [kind |-> "skip", env |-> NoEnvelope]
  ELSE LET encryptedData == ParseEnvelope(integration.encryptedTokens)
           decrypted == decryptWithKey(encryptedData.env, curKey)
           tokens == ParseTokens(decrypted.text)
           newEncrypted == encrypt(StringifyTokens(tokens.tokens),
                                   encryptedData.env.context,
                                   RowMetadata(integration),
                                   encryptionKey, iv, at)
       IN  IF encryptedData.ok /\ decrypted.ok /\ tokens.ok /\ newEncrypted.ok
           THEN [kind |-> "update", env |-> newEncrypted.env]
           ELSE [kind |-> "throw", env |-> NoEnvelope]

\* Faulty variant of UpdateRow: the update has no where clause.
UpdateRow_EveryRow(store, integration, env, keyId, at) ==
  [i \in 1..Len(store) |->
     [store[i] EXCEPT
        !.encryptedTokens = StringifyEnvelope(env),
        !.tokenMetadata = [integration.tokenMetadata EXCEPT
                             !.keyId = keyId, !.rotatedAt = at]]]

\* lines 145-156: update ... where id = integration.id, from the row as it
\* was read
UpdateRow(store, integration, env, keyId, at) ==
  [i \in 1..Len(store) |->
     IF store[i].id = integration.id
     THEN [store[i] EXCEPT
             !.encryptedTokens = StringifyEnvelope(env),
             !.tokenMetadata = [integration.tokenMetadata EXCEPT
                                  !.keyId = keyId, !.rotatedAt = at]]
     ELSE store[i]]

\* Faulty variant of Advance: an exception in the try block ends the scan.
Advance_AbortOnThrow(p, kind) ==
  IF kind # "throw" /\ idx[p] < Len(integrations[p])
  THEN /\ idx' = [idx EXCEPT ![p] = idx[p] + 1]
       /\ UNCHANGED <<pc, offset>>
  ELSE /\ idx' = [idx EXCEPT ![p] = 0]
       /\ offset' = [offset EXCEPT ![p] = offset[p] + batchSize]
       /\ pc' = [pc EXCEPT ![p] = IF kind = "throw" THEN "cutover" ELSE "select"]

\* Faulty variant of Advance: the offset moves on by one row, not by a batch.
Advance_ByOne(p, kind) ==
  IF idx[p] < Len(integrations[p])
  THEN /\ idx' = [idx EXCEPT ![p] = idx[p] + 1]
       /\ UNCHANGED <<pc, offset>>
  ELSE /\ idx' = [idx EXCEPT ![p] = 0]
       /\ offset' = [offset EXCEPT ![p] = offset[p] + 1]
       /\ pc' = [pc EXCEPT ![p] = "select"]

\* the for loop moves to the next row whatever became of this one (kind:
\* "skip", "throw" or "update"); after the last row of the batch,
\* offset += batchSize and the next batch is selected (line 168)
Advance(p, kind) ==
  IF idx[p] < Len(integrations[p])
  THEN /\ idx' = [idx EXCEPT ![p] = idx[p] + 1]
       /\ UNCHANGED <<pc, offset>>
  ELSE /\ idx' = [idx EXCEPT ![p] = 0]
       /\ offset' = [offset EXCEPT ![p] = offset[p] + batchSize]
       /\ pc' = [pc EXCEPT ![p] = "select"]

\* lines 122-166: one iteration of the for loop
MigrateRow(p) ==
  /\ pc[p] = "process"
  /\ LET integration == integrations[p][idx[p]]
     IN  \E iv \in IVs, dbOk \in BOOLEAN :
           \E r \in {Reencrypt(integration, currentKey[p], ENCRYPTION_KEY,
                                iv, now)} :
               /\ Advance(p, IF r.kind = "update" /\ ~dbOk THEN "throw" ELSE r.kind)
               /\ CASE r.kind = "skip" ->
                      UNCHANGED <<healthIntegrations, migratedCount,
                                  failedCount, storeFailed>>
                 [] r.kind = "throw" ->
                      /\ failedCount' = [failedCount EXCEPT ![p] = @ + 1]
                      /\ UNCHANGED <<healthIntegrations, migratedCount, storeFailed>>
                 [] r.kind = "update" /\ dbOk ->
                      /\ healthIntegrations' =
                           UpdateRow(healthIntegrations, integration, r.env,
                                     newKeyId[p], now)
                      /\ migratedCount' = [migratedCount EXCEPT ![p] = @ + 1]
                      /\ UNCHANGED <<failedCount, storeFailed>>
                 [] r.kind = "update" /\ ~dbOk ->
                      /\ failedCount' = [failedCount EXCEPT ![p] = @ + 1]
                      /\ storeFailed' =
                           [storeFailed EXCEPT ![p] = @ \cup {integration.id}]
                      /\ UNCHANGED <<healthIntegrations, migratedCount>>
  /\ visited' = [visited EXCEPT ![p] = Append(@, integrations[p][idx[p]].id)]
  /\ UNCHANGED <<routerVars, appWrites, demoted, thrown, retry, codec, ENCRYPTION_KEY, now,
                 encryptionKeys, runs, newKeyId, newKey,
                 currentKey, integrations, startStore, startKeys>>

\* Faulty variant of DemotePrimaries: the old primaries are not demoted.
DemotePrimaries_NoDemotion(p) ==
  /\ pc[p] = "cutover"
  /\ migratedCount[p] > 0
  /\ pc' = [pc EXCEPT ![p] = "promote"]
  /\ UNCHANGED <<routerVars, appWrites, demoted, visited, thrown, retry,
                 codec, ENCRYPTION_KEY, now, encryptionKeys, healthIntegrations,
                 runs, newKeyId, newKey, currentKey, offset, integrations, idx,
                 migratedCount, failedCount, startStore, startKeys, storeFailed>>

\* Faulty variant of DemotePrimaries: the cutover does not test migratedCount.
DemotePrimaries_Unguarded(p) ==
  /\ pc[p] = "cutover"
  /\ encryptionKeys' =
       [i \in 1..Len(encryptionKeys) |->
          IF encryptionKeys[i].isPrimary
          THEN [encryptionKeys[i] EXCEPT !.isPrimary = FALSE]
          ELSE encryptionKeys[i]]
  /\ demoted' = demoted \cup { encryptionKeys[i].keyId :
                    i \in { j \in 1..Len(encryptionKeys) :
                              encryptionKeys[j].isPrimary } }
  /\ pc' = [pc EXCEPT ![p] = "promote"]
  /\ UNCHANGED <<routerVars, appWrites, visited, thrown, retry, codec, ENCRYPTION_KEY, now,
                 healthIntegrations, runs, newKeyId,
                 newKey, currentKey, offset, integrations, idx, migratedCount,
                 failedCount, startStore, startKeys, storeFailed>>

\* lines 66-71: migratedCount > 0: update ... set isPrimary = false where
\* isPrimary = true
DemotePrimaries(p) ==
  /\ pc[p] = "cutover"
  /\ migratedCount[p] > 0
  /\ encryptionKeys' =
       [i \in 1..Len(encryptionKeys) |->
          IF encryptionKeys[i].isPrimary
          THEN [encryptionKeys[i] EXCEPT !.isPrimary = FALSE]
          ELSE encryptionKeys[i]]
  /\ demoted' = demoted \cup { encryptionKeys[i].keyId :
                    i \in { j \in 1..Len(encryptionKeys) :
                              encryptionKeys[j].isPrimary } }
  /\ pc' = [pc EXCEPT ![p] = "promote"]
  /\ UNCHANGED <<routerVars, appWrites, visited, thrown, retry, codec, ENCRYPTION_KEY, now,
                 healthIntegrations, runs, newKeyId,
                 newKey, currentKey, offset, integrations, idx, migratedCount,
                 failedCount, startStore, startKeys, storeFailed>>

\* Faulty variant of PromoteNewKey: the update names the oldest row of the
\* registry instead of the row of newKeyId.
PromoteNewKey_Oldest(p) ==
  /\ pc[p] = "promote"
  /\ encryptionKeys' =
       [i \in 1..Len(encryptionKeys) |->
          IF i = 1
          THEN [encryptionKeys[i] EXCEPT !.isPrimary = TRUE, !.activatedAt = now]
          ELSE encryptionKeys[i]]
  /\ pc' = [pc EXCEPT ![p] = "returned"]
  /\ UNCHANGED <<routerVars, appWrites, demoted, visited, thrown, retry,
                 codec, ENCRYPTION_KEY, now, healthIntegrations, runs, newKeyId,
                 newKey, currentKey, offset, integrations, idx, migratedCount,
                 failedCount, startStore, startKeys, storeFailed>>

\* lines 74-80: update ... set isPrimary = true, activatedAt = now where
\* keyId = newKeyId; then rotateKeys returns
PromoteNewKey(p) ==
  /\ pc[p] = "promote"
  /\ encryptionKeys' =
       [i \in 1..Len(encryptionKeys) |->
          IF encryptionKeys[i].keyId = newKeyId[p]
          THEN [encryptionKeys[i] EXCEPT !.isPrimary = TRUE, !.activatedAt = now]
          ELSE encryptionKeys[i]]
  /\ pc' = [pc EXCEPT ![p] = "returned"]
  /\ UNCHANGED <<routerVars, appWrites, demoted, visited, thrown, retry,
                 codec, ENCRYPTION_KEY, now, healthIntegrations, runs, newKeyId,
                 newKey, currentKey, offset, integrations, idx, migratedCount,
                 failedCount, startStore, startKeys, storeFailed>>

\* line 66 with migratedCount = 0: no cutover; rotateKeys returns
ReturnWithoutCutover(p) ==
  /\ pc[p] = "cutover"
  /\ ~(migratedCount[p] > 0)
  /\ pc' = [pc EXCEPT ![p] = "returned"]
  /\ UNCHANGED <<routerVars, appWrites, demoted, visited, thrown, retry,
                 codec, ENCRYPTION_KEY, now, encryptionKeys, healthIntegrations, runs,
                 newKeyId, newKey, currentKey, offset, integrations, idx,
                 migratedCount, failedCount, startStore, startKeys, storeFailed>>

\* the caller has the result (or the exception) and may call again
CallEnds(p) ==
  /\ pc[p] \in {"returned", "thrown"}
  /\ pc' = [pc EXCEPT ![p] = "idle"]
  /\ UNCHANGED <<routerVars, appWrites, demoted, visited, thrown, retry,
                 codec, ENCRYPTION_KEY, now, encryptionKeys, healthIntegrations, runs,
                 newKeyId, newKey, currentKey, offset, integrations, idx,
                 migratedCount, failedCount, startStore, startKeys, storeFailed>>

\* lines 85-90: the RotationResult
RotationResult(p) ==
  [oldKeyId |-> "default", newKeyId |-> newKeyId[p],
   migratedCount |-> migratedCount[p], failedCount |-> failedCount[p]]

\* lines 185-192
verifyRotation(keys) ==
  LET found == { i \in 1..Len(keys) : keys[i].isPrimary }
      first == CHOOSE i \in found : \A j \in found : i <= j
  IN  [isValid |-> found # {},
       primaryKeyId |-> IF found # {} THEN keys[first].keyId ELSE "",
       totalKeys |-> Len(keys)]

\* the steps of a call that is under way
Step(p) ==
  \/ SelectBatch(p)
  \/ MigrateRow(p)
  \/ DemotePrimaries(p)
  \/ PromoteNewKey(p)
  \/ ReturnWithoutCutover(p)
  \/ CallEnds(p)

\* One caller, "A", calls rotateKeys() up to MaxRuns times, one call after
\* the other.
Next ==
  \/ runs < MaxRuns /\ StartRotation("A", MaxClock)
  \/ Step("A")

Spec == Init /\ [][Next]_vars

\* Two calls of rotateKeys() in all, by either caller, interleaved at the
\* database round trips.
InitConc ==
  /\ InitWith({"k0"}, InitialStores(NumConcRecords))
  /\ retry = NothingCaught
  /\ NoRouterCalls

NextConc ==
  \E p \in Procs :
    \/ runs < Cardinality(Procs) /\ StartRotation(p, MaxConcClock)
    \/ Step(p)

SpecConc == InitConc /\ [][NextConc]_vars

\* One call of rotateKeys() with the key configured, whose every database
\* round trip is answered: the event loop resumes the call after each await.
InitScan ==
  /\ InitWith({"k0"}, InitialStores(NumRecords))
  /\ retry = NothingCaught
  /\ NoRouterCalls

NextScan ==
  \/ runs = 0 /\ StartRotation("A", now)
  \/ Step("A")

SpecScan == InitScan /\ [][NextScan]_vars /\ WF_vars(Step("A"))

\* One call of rotateKeys(), with or without the key configured.
SpecOneRun == Init /\ [][NextScan]_vars

\* One caller calls rotateKeys() up to MaxReruns times, one call after the
\* other, with the key configured.
NextRerun ==
  \/ runs < MaxReruns /\ StartRotation("A", MaxConcClock)
  \/ Step("A")

SpecRerun == InitConc /\ [][NextRerun]_vars

\* The application stores new tokens for a record: it encrypts them and
\* updates the row's encryptedTokens by id.  Each record is written once.
AppWrite ==
  /\ ENCRYPTION_KEY # ""
  /\ \E i \in 1..Len(healthIntegrations), tokens \in TokenObjects, iv \in IVs :
       /\ healthIntegrations[i].id \notin DOMAIN appWrites
       /\ \E enc \in {encrypt(StringifyTokens(tokens), "OAUTH_TOKEN", NoMetadata,
                               ENCRYPTION_KEY, iv, now)} :
            /\ enc.ok
            /\ healthIntegrations' =
                 [healthIntegrations EXCEPT
                    ![i].encryptedTokens = StringifyEnvelope(enc.env)]
       /\ appWrites' = (healthIntegrations[i].id :> StringifyTokens(tokens))
                          @@ appWrites
  /\ UNCHANGED <<routerVars, demoted, visited, thrown, retry, codec,
                 ENCRYPTION_KEY, now,
                 encryptionKeys, runs, pc, newKeyId, newKey, currentKey,
                 offset, integrations, idx, migratedCount, failedCount,
                 startStore, startKeys, storeFailed>>

\* One call of rotateKeys() while the application goes on writing.
NextLive ==
  \/ runs = 0 /\ StartRotation("A", now)
  \/ Step("A")
  \/ AppWrite

SpecLive == InitConc /\ [][NextLive]_vars

(***************************************************************************)
(* healthRouter (encryption.ts 222-537), one action per database round     *)
(* trip of a procedure.  The database is available.                        *)
(***************************************************************************)
ErrNotFound == "Integration not found"

\* a health_integrations row with the columns the router sets
RouterRow(i, tokens) ==
  [id |-> "int" \o ToString(i), userId |-> i, provider |-> "GARMIN",
   encryptedTokens |-> tokens,
   tokenMetadata |-> [keyId |-> "", rotatedAt |-> 0],
   syncFrequency |-> "DAILY", syncEnabled |-> TRUE]

\* a health_metrics row and a sync_logs row, with the columns the router
\* selects by
MetricRow(i) ==
  [id |-> "metric" \o ToString(i), userId |-> i,
   integrationId |-> "int" \o ToString(i)]

SyncLogRow(n, integrationId) ==
  [id |-> "log" \o ToString(n), integrationId |-> integrationId,
   startedAt |-> n]

\* integrationId inputs: the id of every user's integration and one that
\* no row has
IntegrationIdInputs ==
  { "int" \o ToString(i) : i \in 1..(Cardinality(Users) + 1) }

\* two of z.enum(['HOURLY', 'DAILY', 'WEEKLY', 'MANUAL'])
FrequencyInputs == {"HOURLY", "WEEKLY"}

\* limit inputs: below and above the number of logs an integration has
LimitInputs == {1, 10}

\* the input objects of a procedure, besides integrationId
InputsOf(op) ==
  CASE op = "updateSyncFrequency" ->
         { [frequency |-> f, enabled |-> FALSE, limit |-> 0] :
             f \in FrequencyInputs }
    [] op = "toggleSync" ->
         { [frequency |-> "", enabled |-> e, limit |-> 0] : e \in BOOLEAN }
    [] op = "getSyncHistory" ->
         { [frequency |-> "", enabled |-> FALSE, limit |-> l] :
             l \in LimitInputs }
    [] OTHER -> { [frequency |-> "", enabled |-> FALSE, limit |-> 0] }

\* the procedures that select the integration by id and userId first and
\* then go on
GuardedProcedures ==
  {"updateSyncFrequency", "toggleSync", "triggerSync", "getSyncHistory",
   "deleteIntegration"}

\* calls made so far, over all sessions
CallsMade ==
  Cardinality(UNION { { <<s, k>> : k \in 1..calls[s].n } : s \in Sessions })

\* the session is free for a new call
CanCall(s) ==
  /\ calls[s].stage \in {"idle", "returned", "thrown"}
  /\ CallsMade < MaxCalls

\* the record of a call of op that session s begins for user u
NewCall(s, u, op) ==
  [NoCall EXCEPT !.n = calls[s].n + 1, !.op = op, !.user = u]

\* encryptedTokens: undefined, as a value of the token column
UndefinedTokens == [text |-> Undefined, env |-> NoEnvelope]

\* Faulty variant of Redacted: the row is returned as stored.
Redacted_Nothing(integration) == integration

\* { ...integration, encryptedTokens: undefined }
Redacted(integration) ==
  [integration EXCEPT !.encryptedTokens = UndefinedTokens]

\* lines 230-238: select ... where userId = ctx.user.id, mapped
QueryIntegrations(store, userId) ==
  LET own == SelectSeq(store, LAMBDA r : r.userId = userId)
  IN  [i \in 1..Len(own) |-> Redacted(own[i])]

\* Faulty variant of SelectOwned: the select does not compare userId.
SelectOwned_AnyUser(store, integrationId, userId) ==
  LET found == SelectSeq(store, LAMBDA r : r.id = integrationId)
  IN  SubSeq(found, 1, Min(1, Len(found)))

\* select ... where id = input.integrationId and userId = ctx.user.id
\* limit 1
SelectOwned(store, integrationId, userId) ==
  LET found == SelectSeq(store, LAMBDA r :
                 r.id = integrationId /\ r.userId = userId)
  IN  SubSeq(found, 1, Min(1, Len(found)))

\* lines 226-239
getIntegrations(s, u) ==
  /\ CanCall(s)
  /\ calls' = [calls EXCEPT ![s] =
                 [NewCall(s, u, "getIntegrations") EXCEPT
                    !.stage = "returned",
                    !.rows = QueryIntegrations(healthIntegrations, u)]]
  /\ UNCHANGED <<rotationVars, healthIntegrations, healthMetrics, syncLogs>>

\* lines 244-269
getIntegration(s, u, integrationId) ==
  /\ CanCall(s)
  /\ LET integration == SelectOwned(healthIntegrations, integrationId, u)
         call == [NewCall(s, u, "getIntegration") EXCEPT
                    !.integrationId = integrationId]
     IN  calls' = [calls EXCEPT ![s] =
                     IF Len(integration) = 0
                     THEN [call EXCEPT !.stage = "thrown", !.error = ErrNotFound]
                     ELSE [call EXCEPT !.stage = "returned",
                                       !.rows = <<Redacted(integration[1])>>]]
  /\ UNCHANGED <<rotationVars, healthIntegrations, healthMetrics, syncLogs>>

\* lines 285-298, 325-338, 360-373, 398-411, 508-521: the select that the
\* other integration-scoped procedures begin with, and the throw when it
\* finds no row
SelectIntegration(s, u, op, integrationId, input) ==
  /\ CanCall(s)
  /\ LET integration == SelectOwned(healthIntegrations, integrationId, u)
         call == [NewCall(s, u, op) EXCEPT
                    !.integrationId = integrationId,
                    !.frequency = input.frequency,
                    !.enabled = input.enabled,
                    !.limit = input.limit]
     IN  calls' = [calls EXCEPT ![s] =
                     IF Len(integration) = 0
                     THEN [call EXCEPT !.stage = "thrown", !.error = ErrNotFound]
                     ELSE [call EXCEPT !.stage = "selected",
                                       !.provider = integration[1].provider]]
  /\ UNCHANGED <<rotationVars, healthIntegrations, healthMetrics, syncLogs>>

\* the call of op in session s has found its integration
Selected(s, op) == calls[s].op = op /\ calls[s].stage = "selected"

\* the call in session s returns { success: true }
ReturnSuccess(s) ==
  calls' = [calls EXCEPT ![s].stage = "returned", ![s].success = TRUE]

\* lines 300-308: update ... set syncFrequency where id = input.integrationId
updateSyncFrequency(s) ==
  /\ Selected(s, "updateSyncFrequency")
  /\ healthIntegrations' =
       [i \in 1..Len(healthIntegrations) |->
          IF healthIntegrations[i].id = calls[s].integrationId
          THEN [healthIntegrations[i] EXCEPT !.syncFrequency = calls[s].frequency]
          ELSE healthIntegrations[i]]
  /\ ReturnSuccess(s)
  /\ UNCHANGED <<rotationVars, healthMetrics, syncLogs>>

\* lines 340-348: update ... set syncEnabled where id = input.integrationId
toggleSync(s) ==
  /\ Selected(s, "toggleSync")
  /\ healthIntegrations' =
       [i \in 1..Len(healthIntegrations) |->
          IF healthIntegrations[i].id = calls[s].integrationId
          THEN [healthIntegrations[i] EXCEPT !.syncEnabled = calls[s].enabled]
          ELSE healthIntegrations[i]]
  /\ ReturnSuccess(s)
  /\ UNCHANGED <<rotationVars, healthMetrics, syncLogs>>

\* SyncOrchestrator.syncWithRetry(integrationId, provider): a sync of the
\* integration it is given, which leaves a sync_logs row of that integration
syncWithRetry(logs, integrationId, provider) ==
  Append(logs, SyncLogRow(Len(logs) + 1, integrationId))

\* lines 375-381
triggerSync(s) ==
  /\ Selected(s, "triggerSync")
  /\ syncLogs' = syncWithRetry(syncLogs, calls[s].integrationId,
                               calls[s].provider)
  /\ ReturnSuccess(s)
  /\ UNCHANGED <<rotationVars, healthIntegrations, healthMetrics>>

\* lines 413-420: select ... from syncLogs where integrationId =
\* input.integrationId order by startedAt desc limit input.limit
QuerySyncLogs(logs, integrationId, limit) ==
  LET found == SelectSeq(logs, LAMBDA r : r.integrationId = integrationId)
      newestFirst == [i \in 1..Len(found) |-> found[Len(found) - i + 1]]
  IN  SubSeq(newestFirst, 1, Min(limit, Len(newestFirst)))

getSyncHistory(s) ==
  /\ Selected(s, "getSyncHistory")
  /\ calls' = [calls EXCEPT
                 ![s].stage = "returned",
                 ![s].logs = QuerySyncLogs(syncLogs, calls[s].integrationId,
                                           calls[s].limit)]
  /\ UNCHANGED <<rotationVars, healthIntegrations, healthMetrics, syncLogs>>

\* lines 523-525: delete from healthMetrics where integrationId = ...
DeleteHealthMetrics(s) ==
  /\ Selected(s, "deleteIntegration")
  /\ healthMetrics' =
       SelectSeq(healthMetrics,
                 LAMBDA r : r.integrationId # calls[s].integrationId)
  /\ calls' = [calls EXCEPT ![s].stage = "metricsDeleted"]
  /\ UNCHANGED <<rotationVars, healthIntegrations, syncLogs>>

\* lines 527-529: delete from syncLogs where integrationId = ...
DeleteSyncLogs(s) ==
  /\ calls[s].op = "deleteIntegration" /\ calls[s].stage = "metricsDeleted"
  /\ syncLogs' =
       SelectSeq(syncLogs, LAMBDA r : r.integrationId # calls[s].integrationId)
  /\ calls' = [calls EXCEPT ![s].stage = "logsDeleted"]
  /\ UNCHANGED <<rotationVars, healthIntegrations, healthMetrics>>

\* lines 531-535: delete from healthIntegrations where id = ...
DeleteIntegrationRow(s) ==
  /\ calls[s].op = "deleteIntegration" /\ calls[s].stage = "logsDeleted"
  /\ healthIntegrations' =
       SelectSeq(healthIntegrations, LAMBDA r : r.id # calls[s].integrationId)
  /\ ReturnSuccess(s)
  /\ UNCHANGED <<rotationVars, healthMetrics, syncLogs>>

\* the token column of an integration the application has connected
ConnectedTokens ==
  StringifyEnvelope(encrypt(StringifyTokens([access_token |-> "a"]),
                            "OAUTH_TOKEN", NoMetadata, "k0", "iv0", 0).env)

\* Every user has one integration, with one metric and one sync log.
InitRouter ==
  /\ InitWith({"k0"}, { [i \in 1..Cardinality(Users) |->
                           RouterRow(i, ConnectedTokens)] })
  /\ retry = NothingCaught
  /\ healthMetrics = [i \in 1..Cardinality(Users) |-> MetricRow(i)]
  /\ syncLogs = [i \in 1..Cardinality(Users) |->
                   SyncLogRow(i, "int" \o ToString(i))]
  /\ calls = [s \in Sessions |-> NoCall]

\* Up to MaxCalls calls, by any user, in two sessions whose database round
\* trips interleave.
NextRouter ==
  \E s \in Sessions :
    \/ \E u \in Users : getIntegrations(s, u)
    \/ \E u \in Users, id \in IntegrationIdInputs : getIntegration(s, u, id)
    \/ \E u \in Users, id \in IntegrationIdInputs, op \in GuardedProcedures :
         \E input \in InputsOf(op) : SelectIntegration(s, u, op, id, input)
    \/ updateSyncFrequency(s)
    \/ toggleSync(s)
    \/ triggerSync(s)
    \/ getSyncHistory(s)
    \/ DeleteHealthMetrics(s)
    \/ DeleteSyncLogs(s)
    \/ DeleteIntegrationRow(s)

SpecRouter == InitRouter /\ [][NextRouter]_vars

\* The two queries of integrations, over every content of the token
\* columns: every user has one integration.
InitQuery ==
  /\ InitWith({"k0"},
              { [i \in 1..Len(store) |->
                   RouterRow(i, store[i].encryptedTokens)] :
                  store \in StoresOfSize(Cardinality(Users)) })
  /\ retry = NothingCaught
  /\ NoRouterCalls

NextQuery ==
  \E s \in Sessions, u \in Users :
    \/ getIntegrations(s, u)
    \/ \E id \in IntegrationIdInputs : getIntegration(s, u, id)

SpecQuery == InitQuery /\ [][NextQuery]_vars

(***************************************************************************)
(* A consumer of the codec: one encrypt call, an optional change to the    *)
(* stored envelope, one decrypt call under process.env.ENCRYPTION_KEY.     *)
(***************************************************************************)
Plaintexts == {"", "token123", StringifyTokens([access_token |-> "a"])}

MetadataArgs ==
  { NoMetadata,
    Metadata(<< >>),
    Metadata(<< <<"provider", "SAMSUNG">> >>),
    Metadata(<< <<"provider", "GARMIN">>, <<"userId", "1">>,
                <<"integrationId", "x">> >>),
    Metadata(<< <<"userId", "1">>, <<"provider", Undefined>> >>),
    Metadata(<< <<"provider", "GARMIN">>, <<"userEmail", "user@example.com">>,
                <<"customField", "value">> >>),
    Metadata(<< <<"customField", Undefined>>, <<"userId", "1">> >>) }

\* strings an envelope's aadVersion can be replaced by
AadStrings ==
  {"", "tampered"}
    \cup { aadString(c, m) :
             c \in AAD_CONTEXTS,
             m \in { a \in MetadataArgs : validateTechnicalMetadata(a).isValid } }

CallEncrypt ==
  /\ codec.stage = "idle"
  /\ \E text \in Plaintexts, context \in {""} \cup AAD_CONTEXTS,
        metadata \in MetadataArgs, iv \in IVs :
       LET r == encrypt(text, context, metadata, ENCRYPTION_KEY, iv, now)
       IN  codec' = [codec EXCEPT
                       !.stage = IF r.ok THEN "encrypted" ELSE "threw",
                       !.text = text, !.context = context,
                       !.metadata = metadata, !.enc = r, !.envelope = r.env]
  /\ UNCHANGED <<routerVars, appWrites, demoted, visited, thrown, retry,
                 ENCRYPTION_KEY, now, encryptionKeys, healthIntegrations, runs,
                 pc, newKeyId, newKey, currentKey, offset, integrations, idx,
                 migratedCount, failedCount, startStore, startKeys, storeFailed>>

\* the stored envelope's aadVersion is replaced by a different string
ReplaceAadVersion ==
  /\ codec.stage = "encrypted"
  /\ codec.altered = "none"
  /\ \E str \in AadStrings \ {codec.envelope.aadVersion} :
       codec' = [codec EXCEPT !.envelope.aadVersion = str,
                              !.altered = "aadVersion"]
  /\ UNCHANGED <<routerVars, appWrites, demoted, visited, thrown, retry,
                 ENCRYPTION_KEY, now, encryptionKeys, healthIntegrations, runs,
                 pc, newKeyId, newKey, currentKey, offset, integrations, idx,
                 migratedCount, failedCount, startStore, startKeys, storeFailed>>

\* the stored envelope's context field is removed
StripContext ==
  /\ codec.stage = "encrypted"
  /\ codec.altered = "none"
  /\ codec.envelope.context # ""
  /\ codec' = [codec EXCEPT !.envelope.context = "", !.altered = "context"]
  /\ UNCHANGED <<routerVars, appWrites, demoted, visited, thrown, retry,
                 ENCRYPTION_KEY, now, encryptionKeys, healthIntegrations, runs,
                 pc, newKeyId, newKey, currentKey, offset, integrations, idx,
                 migratedCount, failedCount, startStore, startKeys, storeFailed>>

CallDecrypt ==
  /\ codec.stage = "encrypted"
  /\ codec' = [codec EXCEPT !.stage = "decrypted",
                            !.fn = "decrypt", !.key = ENCRYPTION_KEY,
                            !.dec = decrypt(codec.envelope, ENCRYPTION_KEY)]
  /\ UNCHANGED <<routerVars, appWrites, demoted, visited, thrown, retry,
                 ENCRYPTION_KEY, now, encryptionKeys, healthIntegrations, runs,
                 pc, newKeyId, newKey, currentKey, offset, integrations, idx,
                 migratedCount, failedCount, startStore, startKeys, storeFailed>>

InitCodec ==
  /\ InitWith({"", "k0", "k1"}, InitialStores(0))
  /\ retry = NothingCaught
  /\ NoRouterCalls

NextCodec ==
  \/ CallEncrypt
  \/ ReplaceAadVersion
  \/ StripContext
  \/ CallDecrypt

SpecCodec == InitCodec /\ [][NextCodec]_vars

(***************************************************************************)
(* A consumer that decrypts what may have been tampered with: after the    *)
(* encrypt call the key of the process may be replaced or removed, one     *)
(* field of the stored envelope may be changed, and the envelope is given  *)
(* to decrypt or, with any key, to decryptWithKey.                         *)
(***************************************************************************)
DecryptionKeys == {"k0", "k1", "k2"}

\* part_000 64-73: process.env.ENCRYPTION_KEY is deleted or reassigned
SetEncryptionKey ==
  /\ codec.stage = "encrypted"
  /\ ENCRYPTION_KEY' \in ({""} \cup DecryptionKeys) \ {ENCRYPTION_KEY}
  /\ UNCHANGED <<routerVars, appWrites, demoted, visited, thrown, retry,
                 codec, now, encryptionKeys, healthIntegrations, runs,
                 pc, newKeyId, newKey, currentKey, offset, integrations, idx,
                 migratedCount, failedCount, startStore, startKeys, storeFailed>>

\* the 16 bytes of a tag no encrypt call computed ('a'.repeat(32))
ForgedTag == GcmAuthTag("", "", "", GcmEncrypt("", "", ""))

\* hex texts the authTag of a stored envelope can be replaced by: another
\* 16-byte tag, or the leading 12 or 4 bytes of the tag it holds
TamperedAuthTags(authTag) ==
  { TagHex(ForgedTag),
    [authTag EXCEPT !.len = 12],
    [authTag EXCEPT !.len = 4] }

\* part_000 84-89: the stored envelope's authTag is replaced
ReplaceAuthTag ==
  /\ codec.stage = "encrypted"
  /\ codec.altered = "none"
  /\ \E t \in TamperedAuthTags(codec.envelope.authTag) :
       codec' = [codec EXCEPT !.envelope.authTag = t, !.altered = "authTag"]
  /\ UNCHANGED <<routerVars, appWrites, demoted, visited, thrown, retry,
                 ENCRYPTION_KEY, now, encryptionKeys, healthIntegrations, runs,
                 pc, newKeyId, newKey, currentKey, offset, integrations, idx,
                 migratedCount, failedCount, startStore, startKeys, storeFailed>>

\* part_000 75-82: the stored envelope's v is replaced ((encrypted as any).v
\* = 999)
ReplaceVersion ==
  /\ codec.stage = "encrypted"
  /\ codec.altered = "none"
  /\ \E v \in {0, 2, 999} :
       codec' = [codec EXCEPT !.envelope.v = v, !.altered = "v"]
  /\ UNCHANGED <<routerVars, appWrites, demoted, visited, thrown, retry,
                 ENCRYPTION_KEY, now, encryptionKeys, healthIntegrations, runs,
                 pc, newKeyId, newKey, currentKey, offset, integrations, idx,
                 migratedCount, failedCount, startStore, startKeys, storeFailed>>

CallDecryptWithKey ==
  /\ codec.stage = "encrypted"
  /\ \E key \in DecryptionKeys :
       codec' = [codec EXCEPT !.stage = "decrypted",
                              !.fn = "decryptWithKey", !.key = key,
                              !.dec = decryptWithKey(codec.envelope, key)]
  /\ UNCHANGED <<routerVars, appWrites, demoted, visited, thrown, retry,
                 ENCRYPTION_KEY, now, encryptionKeys, healthIntegrations, runs,
                 pc, newKeyId, newKey, currentKey, offset, integrations, idx,
                 migratedCount, failedCount, startStore, startKeys, storeFailed>>

NextTamper ==
  \/ CallEncrypt
  \/ SetEncryptionKey
  \/ ReplaceAuthTag
  \/ ReplaceVersion
  \/ ReplaceAadVersion
  \/ StripContext
  \/ CallDecrypt
  \/ CallDecryptWithKey

SpecTamper == InitCodec /\ [][NextTamper]_vars

(***************************************************************************)
(* A call of rotateKeys() is interrupted: the process dies after the new   *)
(* key was inserted and before the call returns.  Nothing is rolled back   *)
(* (no statement runs in a transaction).  When it dies with the promoting  *)
(* update under way, the database has applied the update or has not.       *)
(***************************************************************************)
Crash(p) ==
  /\ pc[p] \in {"select", "process", "cutover", "promote"}
  /\ pc' = [pc EXCEPT ![p] = "crashed"]
  /\ \E applied \in BOOLEAN :
       encryptionKeys' =
         IF pc[p] = "promote" /\ applied
         THEN [i \in 1..Len(encryptionKeys) |->
                 IF encryptionKeys[i].keyId = newKeyId[p]
                 THEN [encryptionKeys[i] EXCEPT !.isPrimary = TRUE,
                                                !.activatedAt = now]
                 ELSE encryptionKeys[i]]
         ELSE encryptionKeys
  /\ UNCHANGED <<routerVars, appWrites, demoted, visited, thrown, retry,
                 codec, ENCRYPTION_KEY, now, healthIntegrations, runs,
                 newKeyId, newKey, currentKey, offset, integrations, idx,
                 migratedCount, failedCount, startStore, startKeys, storeFailed>>

NextCrash ==
  \/ Next
  \/ Crash("A")

SpecCrash == Init /\ [][NextCrash]_vars

(***************************************************************************)
(* The application encrypts after a rotation: one call of rotateKeys(),    *)
(* and once it has returned, a call of encrypt in the same process.        *)
(***************************************************************************)
NextApp ==
  \/ runs < MaxRuns /\ StartRotation("A", MaxClock)
  \/ Step("A")
  \/ pc["A"] = "returned" /\ CallEncrypt

SpecApp == InitConc /\ [][NextApp]_vars

(***************************************************************************)
(* A caller that has caught a value asks isRetryableError about it.        *)
(***************************************************************************)
ErrorMessages ==
  { "", "Network timeout", "Connection refused", "ECONNREFUSED",
    "Rate limit exceeded", "ThrottlingException", "Invalid input",
    "Unauthorized", "Resource not found", "Something went wrong",
    "Service down", "Invalid data", "getaddrinfo ENOTFOUND api.example.com",
    "Temporarily unavailable", "Server BUSY", "Too Many Requests",
    "503 Service Unavailable", "Bad Gateway", "Gateway Timeout",
    "connect ETIMEDOUT", "Rate exceeded", "Request timed out" }

ErrorNames ==
  { "Error", "TypeError", "ECONNREFUSED", "ETIMEDOUT", "ENOTFOUND",
    "ThrottlingException", "TimeoutError", "NetworkError" }

ThrownValues ==
  { Error(m, n) : m \in ErrorMessages, n \in ErrorNames }
    \cup { createError(c, m, r) :
             c \in {"SERVICE_UNAVAILABLE", "VALIDATION_ERROR"},
             m \in {"Service down", "Invalid data", "Network timeout"},
             r \in BOOLEAN }
    \cup { RateLimitError(m) :
             m \in {"Rate limit exceeded", "Too many requests", "quota"} }
    \cup { Value(m, n, r) :
             m \in {"", "Network timeout"}, n \in {"", "ECONNREFUSED"},
             r \in BOOLEAN }

\* isRetryableError(error) in a catch block
Classify ==
  /\ retry.stage = "caught"
  /\ retry' = [retry EXCEPT !.stage = "classified",
                            !.result = isRetryableError(retry.error)]
  /\ UNCHANGED <<routerVars, appWrites, demoted, visited, thrown,
                 ENCRYPTION_KEY, now, encryptionKeys, healthIntegrations, runs,
                 pc, newKeyId, newKey, currentKey, offset, integrations, idx,
                 migratedCount, failedCount, startStore, startKeys, storeFailed,
                 codec>>

InitErrors ==
  /\ InitWith({"k0"}, InitialStores(0))
  /\ retry \in { [stage |-> "caught", error |-> e, result |-> FALSE] :
                    e \in ThrownValues }
  /\ NoRouterCalls

NextErrors == Classify

SpecErrors == InitErrors /\ [][NextErrors]_vars

(***************************************************************************)
(* Properties.                                                             *)
(***************************************************************************)
Primaries(keys) == { i \in 1..Len(keys) : keys[i].isPrimary }

\* the scan of a call is over: cutover pending, under way, or call returned
ScanDone(p) == pc[p] \in {"cutover", "promote", "returned"}

\* rows of the store last written by the call of p
MigratedRows(p) ==
  { i \in 1..Len(healthIntegrations) :
      healthIntegrations[i].tokenMetadata.keyId = newKeyId[p] }

StoredEnvelope(i) == ParseEnvelope(healthIntegrations[i].encryptedTokens).env

\* C1: a call that started with exactly one primary key and returns with
\* migratedCount > 0 leaves exactly one primary key, the new one, and
\* verifyRotation() then reports isValid with primaryKeyId = newKeyId.
RotationSafety ==
  \A p \in Procs :
    ( /\ pc[p] = "returned"
      /\ Cardinality(Primaries(startKeys[p])) = 1
      /\ RotationResult(p).migratedCount > 0 )
    => /\ Cardinality(Primaries(encryptionKeys)) = 1
       /\ \A i \in Primaries(encryptionKeys) :
            encryptionKeys[i].keyId = RotationResult(p).newKeyId
       /\ verifyRotation(encryptionKeys).isValid
       /\ verifyRotation(encryptionKeys).primaryKeyId = RotationResult(p).newKeyId

RotationSafetyWitness ==
  /\ pc["A"] = "returned"
  /\ migratedCount["A"] > 0
  /\ failedCount["A"] > 0
  /\ Len(encryptionKeys) = 2
  /\ encryptionKeys[2].isPrimary

\* C2: in every state of a call exactly one key is primary.
ExactlyOnePrimaryAlways == Cardinality(Primaries(encryptionKeys)) = 1

\* C3: when a call has returned, every row it migrated holds an envelope
\* that decryptWithKey opens under the new key and not under the old key.
MigratedUnderNewKey ==
  \A p \in Procs :
    pc[p] = "returned" =>
      \A i \in MigratedRows(p) :
        /\ decryptWithKey(StoredEnvelope(i), newKey[p]).ok
        /\ ~decryptWithKey(StoredEnvelope(i), currentKey[p]).ok

\* C4: when a call has returned, every row it migrated decrypts, under the
\* key it was re-encrypted with, to the plaintext it held when the call began.
NoDataLoss ==
  \A p \in Procs :
    pc[p] = "returned" =>
      \A i \in MigratedRows(p) :
        LET before == decryptWithKey(
                        ParseEnvelope(startStore[p][i].encryptedTokens).env,
                        currentKey[p])
            after == decryptWithKey(StoredEnvelope(i), StoredEnvelope(i).encrypted.k)
        IN  /\ after.ok
            /\ after.text = before.text
            /\ decrypt(StoredEnvelope(i), StoredEnvelope(i).encrypted.k) = after

\* C5: a call whose scan migrated nothing changes no isPrimary: the keys
\* registered before are as they were, the new key is registered active and
\* not primary, and the demotion is never performed.
NoOpWhenNothingMigrated ==
  \A p \in Procs :
    /\ (pc[p] = "promote" => migratedCount[p] > 0)
    /\ (pc[p] = "returned" /\ migratedCount[p] = 0) =>
         /\ Len(encryptionKeys) = Len(startKeys[p]) + 1
         /\ \A i \in 1..Len(startKeys[p]) : encryptionKeys[i] = startKeys[p][i]
         /\ encryptionKeys[Len(encryptionKeys)].keyId = newKeyId[p]
         /\ encryptionKeys[Len(encryptionKeys)].isActive
         /\ ~encryptionKeys[Len(encryptionKeys)].isPrimary

\* every row failed
NoOpWitness ==
  /\ pc["A"] = "returned"
  /\ migratedCount["A"] = 0
  /\ failedCount["A"] = NumRecords
  /\ encryptionKeys[1].isPrimary

\* C6: verifyRotation().isValid is true iff exactly one key is primary.
VerifyIffExactlyOnePrimary ==
  verifyRotation(encryptionKeys).isValid
    <=> Cardinality(Primaries(encryptionKeys)) = 1

\* rows with a non-empty token column when the call of p began
NonEmptyRows(p) ==
  { i \in 1..Len(startStore[p]) : startStore[p][i].encryptedTokens.text # "" }

\* rows whose migration by the call of p failed: the try block threw before
\* the update, or the update was rejected
FailedRows(p) ==
  { i \in NonEmptyRows(p) :
      \/ Reencrypt(startStore[p][i], currentKey[p], ENCRYPTION_KEY, "iv1", 0).kind
           = "throw"
      \/ startStore[p][i].id \in storeFailed[p] }

\* C7: when the scan is over, failedCount is the number of rows that failed,
\* and every other row with a non-empty token column, in whichever batch,
\* was migrated and counted; the rows not migrated are as they were.
FailureIsolation ==
  \A p \in Procs :
    ScanDone(p) =>
      LET failed == FailedRows(p)
          others == NonEmptyRows(p) \ failed
      IN  /\ failedCount[p] = Cardinality(failed)
          /\ migratedCount[p] = Cardinality(others)
          /\ MigratedRows(p) = others
          /\ \A i \in 1..Len(healthIntegrations) :
               i \notin others => healthIntegrations[i] = startStore[p][i]

\* a row fails in the first batch, before a row of that batch and a row of
\* the second batch that are migrated; the store rejected one update
FailureIsolationWitness ==
  /\ pc["A"] = "returned"
  /\ 1 \in FailedRows("A")
  /\ 2 \in MigratedRows("A")
  /\ storeFailed["A"] # {}
  /\ \E i \in MigratedRows("A") : i > batchSize

\* C8: without metadata, with or without a context, decrypt under the key
\* of the encrypt call returns exactly the plaintext given to encrypt.
RoundTrip ==
  ( /\ codec.stage = "decrypted"
    /\ codec.altered = "none"
    /\ ~codec.metadata.given )
  => /\ codec.dec.ok
     /\ codec.dec.text = codec.text
     /\ codec.text # ""

RoundTripWitness ==
  /\ codec.stage = "decrypted"
  /\ codec.altered = "none"
  /\ ~codec.metadata.given
  /\ codec.context = "HEALTH_DATA"
  /\ ENCRYPTION_KEY = "k1"
  /\ codec.dec.ok
  /\ codec.dec.text = "token123"

\* C9: an envelope encrypted with a context and non-empty whitelisted
\* metadata is decrypted, from its stored fields alone, to the plaintext.
MetadataRoundTrip ==
  ( /\ codec.stage = "decrypted"
    /\ codec.altered = "none"
    /\ codec.context # ""
    /\ codec.metadata.given
    /\ Len(metadataEntries(codec.metadata)) > 0 )
  => /\ codec.dec.ok
     /\ codec.dec.text = codec.text

\* C10: for an envelope encrypted with a context, decrypt under the right
\* key fails with the authentication error once aadVersion has been
\* replaced by a different string or the context field has been removed.
ContextBinding ==
  ( /\ codec.stage = "decrypted"
    /\ codec.context # ""
    /\ codec.altered \in {"aadVersion", "context"} )
  => /\ ~codec.dec.ok
     /\ codec.dec.err = ErrAuth

\* the AAD the decipher of decrypt / decryptWithKey is given for an envelope
DecipherAad(encryptedData) ==
  IF encryptedData.context # "" /\ encryptedData.aadVersion # ""
  THEN encryptedData.aadVersion
  ELSE ""

\* C11: decrypt and decryptWithKey return a plaintext only when the key,
\* the AAD and the authTag are those of the encrypt call; under another key
\* or with a modified authTag they fail with the authentication error, and
\* a failed call returns no plaintext.
FailClosed ==
  codec.stage = "decrypted" =>
    LET original == codec.enc.env
        envelope == codec.envelope
    IN  /\ codec.dec.ok =>
             /\ codec.key = original.encrypted.k
             /\ DecipherAad(envelope) = original.authTag.tag.aad
             /\ envelope.authTag = original.authTag
             /\ codec.dec.text = codec.text
        /\ ( /\ envelope.v = CURRENT_VERSION
             /\ codec.key # ""
             /\ \/ codec.key # original.encrypted.k
                \/ envelope.authTag # original.authTag )
           => codec.dec.err = ErrAuth
        /\ ~codec.dec.ok => codec.dec.text = ""

\* C12: an envelope whose v is not the supported version makes decrypt and
\* decryptWithKey fail with the version error and return nothing, whether
\* the key is the right one, another one, or not configured.
VersionGate ==
  ( /\ codec.stage = "decrypted"
    /\ codec.envelope.v # CURRENT_VERSION )
  => /\ ~codec.dec.ok
     /\ codec.dec.err = ErrVersion
     /\ codec.dec.text = ""

\* the keys of a metadata object, in insertion order
MetadataKeys(metadata) ==
  [i \in 1..Len(metadata.entries) |-> metadata.entries[i][1]]

\* the keys of a metadata object outside the whitelist
NonTechnicalKeys(metadata) ==
  SelectSeq(MetadataKeys(metadata),
            LAMBDA k : k \notin {"provider", "userId", "integrationId"})

\* an encrypt call has been made, with a non-empty plaintext and a key
\* configured, whose metadata has a key outside the whitelist
EncryptedWithNonTechnicalKey ==
  /\ codec.stage \in {"encrypted", "threw"}
  /\ codec.text # ""
  /\ ENCRYPTION_KEY # ""
  /\ codec.metadata.given
  /\ Len(NonTechnicalKeys(codec.metadata)) > 0

\* the call failed with the validation error that lists the keys outside the
\* whitelist, and no envelope was produced
RejectedListingNonTechnicalKeys ==
  /\ ~codec.enc.ok
  /\ codec.stage = "threw"
  /\ codec.enc.err = "Invalid metadata for AAD. Non-technical keys: "
                       \o Join(NonTechnicalKeys(codec.metadata), ", ")
  /\ codec.enc.env = NoEnvelope

\* C13, as claimed: every encrypt call whose metadata has a key outside the
\* whitelist fails with the validation error listing exactly those keys.
MetadataWhitelistEveryCall ==
  EncryptedWithNonTechnicalKey => RejectedListingNonTechnicalKeys

\* C13, amended: the call fails so when a context is given; without a
\* context the metadata is not looked at and the envelope is produced.
MetadataWhitelist ==
  EncryptedWithNonTechnicalKey
  => IF codec.context # ""
     THEN RejectedListingNonTechnicalKeys
     ELSE /\ codec.enc.ok
          /\ codec.envelope.context = ""
          /\ codec.envelope.authTag.tag.aad = ""

MetadataWhitelistWitness ==
  /\ codec.stage = "threw"
  /\ codec.context = "OAUTH_TOKEN"
  /\ codec.enc.err =
       "Invalid metadata for AAD. Non-technical keys: userEmail, customField"

\* C14: an encrypt call with an empty plaintext fails with the validation
\* error, also when no key is configured; a call with a plaintext and no
\* key configured fails with the configuration error; neither produces an
\* envelope.
EncryptErrors ==
  codec.stage \in {"encrypted", "threw"} =>
    /\ codec.text = "" =>
         /\ codec.stage = "threw"
         /\ codec.enc.err = "Text to encrypt cannot be empty"
         /\ codec.enc.env = NoEnvelope
    /\ (codec.text # "" /\ ENCRYPTION_KEY = "") =>
         /\ codec.stage = "threw"
         /\ codec.enc.err = "ENCRYPTION_KEY environment variable not configured"
         /\ codec.enc.env = NoEnvelope

\* empty plaintext and no key: the empty-plaintext error is reported
EncryptErrorsWitness ==
  /\ codec.stage = "threw"
  /\ codec.text = ""
  /\ ENCRYPTION_KEY = ""
  /\ ~codec.enc.ok
  /\ codec.enc.err = "Text to encrypt cannot be empty"

\* C15: after a call of rotateKeys() that promoted its new key, an encrypt
\* call encrypts under the key material generated for the primary
\* KeyRecord, not under the retired key.
EncryptUsesPrimaryKey ==
  ( /\ pc["A"] = "returned"
    /\ migratedCount["A"] > 0
    /\ codec.stage = "encrypted" )
  => /\ \A i \in Primaries(encryptionKeys) :
          encryptionKeys[i].keyId = newKeyId["A"]
     /\ codec.envelope.encrypted.k = newKey["A"]
     /\ codec.envelope.encrypted.k # currentKey["A"]

\* the entries of a metadata argument that have a value
DefinedEntries(metadata) ==
  IF metadata.given
  THEN { metadata.entries[i] : i \in { j \in 1..Len(metadata.entries) :
                                         metadata.entries[j][2] # Undefined } }
  ELSE {}

\* the order of the keys: "integrationId" < "provider" < "userId"
KeyBefore(a, b) ==
  <<a, b>> \in { <<"integrationId", "provider">>, <<"integrationId", "userId">>,
                 <<"provider", "userId">> }

\* base + "::" + the entries as "key=value", in the order of their keys,
\* joined with "|"; the base alone when there is no entry
FullAad(context, metadata) ==
  LET entries == DefinedEntries(metadata)
      n == Cardinality(entries)
      inOrder == CHOOSE s \in [1..n -> entries] :
                   /\ \A e \in entries : \E i \in 1..n : s[i] = e
                   /\ \A i, j \in 1..n : i < j => KeyBefore(s[i][1], s[j][1])
      text(e) == e[1] \o "=" \o e[2]
      base == context \o "::v1"
  IN  CASE n = 0 -> base
        [] n = 1 -> base \o "::" \o text(inOrder[1])
        [] n = 2 -> base \o "::" \o text(inOrder[1]) \o "|" \o text(inOrder[2])
        [] n = 3 -> base \o "::" \o text(inOrder[1]) \o "|" \o text(inOrder[2])
                         \o "|" \o text(inOrder[3])

\* C16: the envelope of an encrypt call with a context has aadVersion
\* "<context>::v1" whatever the metadata, while the AAD bound by the tag and
\* hashed into aadHash is the full string with the metadata entries.
AadFormat ==
  ( /\ codec.stage = "encrypted"
    /\ codec.altered = "none"
    /\ codec.context # "" )
  => /\ codec.envelope.context = codec.context
     /\ codec.envelope.aadVersion = codec.context \o "::v1"
     /\ codec.envelope.authTag.tag.aad = FullAad(codec.context, codec.metadata)
     /\ codec.envelope.aadHash = AadHash(FullAad(codec.context, codec.metadata))

\* three entries given out of key order
AadFormatWitness ==
  /\ codec.stage = "encrypted"
  /\ codec.context = "OAUTH_TOKEN"
  /\ codec.metadata.given
  /\ Len(codec.metadata.entries) = 3
  /\ codec.envelope.aadVersion = "OAUTH_TOKEN::v1"
  /\ codec.envelope.authTag.tag.aad =
       "OAUTH_TOKEN::v1::integrationId=x|provider=GARMIN|userId=1"

\* str, whatever its case, contains one of the keywords
HasKeyword(str, keywords) ==
  \E k \in keywords : includes(toLowerCase(str), k)

NetworkKeywords ==
  { "timeout", "network", "connection", "econnrefused", "enotfound",
    "temporarily", "busy" }
RateLimitKeywords == { "rate limit", "throttl", "too many requests" }
AvailabilityKeywords == { "service unavailable", "bad gateway", "gateway timeout" }
ErrorCodeKeywords == { "econnrefused", "etimedout", "enotfound" }

\* the keywords looked for in a message, and those looked for in a name
MessageKeywords == NetworkKeywords \cup RateLimitKeywords \cup AvailabilityKeywords
AllKeywords == MessageKeywords \cup ErrorCodeKeywords

\* what is claimed of an AppError and of a value that is not an Error
ClassifiedByKind ==
  /\ "AppError" \in retry.error.instanceOf =>
       retry.result = retry.error.metadata.isRetryable
  /\ "RateLimitError" \in retry.error.instanceOf => retry.result = FALSE
  /\ "Error" \notin retry.error.instanceOf => retry.result = FALSE

PlainError ==
  /\ "Error" \in retry.error.instanceOf
  /\ "AppError" \notin retry.error.instanceOf

\* C18, as claimed: an Error that is no AppError is retryable iff its
\* message or its name contains a network, rate-limit/throttling or
\* service-availability keyword.
RetryableIffKeywordInMessageOrName ==
  retry.stage = "classified" =>
    /\ ClassifiedByKind
    /\ PlainError =>
         ( retry.result <=> \/ HasKeyword(retry.error.message, AllKeywords)
                            \/ HasKeyword(retry.error.name, AllKeywords) )

\* C18, amended: an Error that is no AppError is retryable iff its message
\* contains a network, rate-limit/throttling or service-availability
\* keyword, or its name contains econnrefused, etimedout or enotfound.
RetryableClassification ==
  retry.stage = "classified" =>
    /\ ClassifiedByKind
    /\ PlainError =>
         ( retry.result <=> \/ HasKeyword(retry.error.message, MessageKeywords)
                            \/ HasKeyword(retry.error.name, ErrorCodeKeywords) )

\* a RateLimitError whose message has a rate-limit keyword is not retryable
RetryableClassificationWitness ==
  /\ retry.stage = "classified"
  /\ retry.error = RateLimitError("Rate limit exceeded")
  /\ retry.result = FALSE

\* keyIds registered when the call of p began
StartKeyIds(p) == { startKeys[p][i].keyId : i \in 1..Len(startKeys[p]) }

\* C19: the keyId a call derives is the keyId of no KeyRecord registered
\* before, whatever the clock values of the calls, so the insert of the new
\* key is never rejected: a call throws only when no key is configured.
KeyIdUnique ==
  \A p \in Procs :
    /\ pc[p] = "thrown" => ENCRYPTION_KEY = ""
    /\ (pc[p] # "idle" /\ ENCRYPTION_KEY # "") => newKeyId[p] \notin StartKeyIds(p)

\* C20: a call interrupted after it registered its key and before it
\* returned leaves the new key registered and not primary, and every key
\* that was primary when the call began still primary.
CrashLeavesOldPrimary ==
  \A p \in Procs :
    pc[p] = "crashed" =>
      /\ \E i \in 1..Len(encryptionKeys) :
           /\ encryptionKeys[i].keyId = newKeyId[p]
           /\ ~encryptionKeys[i].isPrimary
      /\ \A i \in 1..Len(startKeys[p]) :
           startKeys[p][i].isPrimary => encryptionKeys[i].isPrimary

(***************************************************************************)
(* The order of the steps of one rotateKeys() call.                        *)
(***************************************************************************)
\* the new key's row as lines 43-52 insert it
NewKeyRows(p) ==
  { i \in 1..Len(encryptionKeys) : encryptionKeys[i].keyId = newKeyId[p] }

\* the scan of the call is under way: a select or a loop iteration is next
Scanning(p) == pc[p] \in {"select", "process"}

\* C21: within one rotateKeys() call the new KeyRecord is in the registry,
\* active and not primary, before any record is read or updated; while the
\* scan is under way no isPrimary flag differs from the registry the call
\* found; isPrimary changes only after the scan, and the step that promotes
\* the new key finds every earlier primary already demoted.
StepOrder ==
  [][\A p \in {"A"} :
       /\ Scanning(p) =>
            /\ \E i \in NewKeyRows(p) :
                 encryptionKeys[i].isActive /\ ~encryptionKeys[i].isPrimary
            /\ Len(encryptionKeys) = Len(startKeys[p]) + 1
            /\ \A i \in 1..Len(startKeys[p]) : encryptionKeys[i] = startKeys[p][i]
       /\ pc[p] = "idle" /\ pc'[p] = "select" =>
            /\ visited'[p] = << >>
            /\ healthIntegrations' = healthIntegrations
            /\ NewKeyRows(p)' # {}
       /\ Primaries(encryptionKeys') # Primaries(encryptionKeys) =>
            /\ ScanDone(p)
            /\ Len(visited[p]) = Len(healthIntegrations)
       /\ Primaries(encryptionKeys') \ Primaries(encryptionKeys) # {} =>
            /\ Primaries(encryptionKeys) = {}
            /\ Primaries(encryptionKeys') = NewKeyRows(p)
            /\ { startKeys[p][i].keyId : i \in Primaries(startKeys[p]) }
                 \subseteq demoted
     ]_vars

\* a scan over two batches is finished and the old primary is demoted; the
\* new key is not promoted yet
StepOrderWitness ==
  /\ pc["A"] = "promote"
  /\ Len(visited["A"]) > batchSize
  /\ Primaries(encryptionKeys) = {}
  /\ \E i \in NewKeyRows("A") : ~encryptionKeys[i].isPrimary

(***************************************************************************)
(* Promotions over several calls.                                          *)
(***************************************************************************)
\* the keyIds of the rows of keys whose index is in rows
KeyIdsOf(keys, rows) == { keys[i].keyId : i \in rows }

\* C22: over any sequence of calls a key that an update has demoted is never
\* primary again, and a step that makes a key primary is the promoting
\* update of a call, for the key that call created.
NeverPrimaryAgain ==
  [][/\ KeyIdsOf(encryptionKeys', Primaries(encryptionKeys')) \cap demoted' = {}
     /\ \A i \in Primaries(encryptionKeys') \ Primaries(encryptionKeys) :
          \E p \in Procs :
            /\ pc[p] = "promote" /\ pc'[p] = "returned"
            /\ encryptionKeys[i].keyId = newKeyId[p]
            /\ newKeyId[p] \notin KeyIdsOf(startKeys[p], DOMAIN startKeys[p])
            /\ newKeyId[p] \notin demoted
    ]_vars

\* two calls have each demoted a primary; the key of the second is primary
NeverPrimaryAgainWitness ==
  /\ Cardinality(demoted) = 2
  /\ "key_0" \in demoted
  /\ Cardinality(Primaries(encryptionKeys)) = 1
  /\ \A p \in Procs : pc[p] \in {"idle", "returned"}

(***************************************************************************)
(* The scan of migrateDataToNewKey.                                        *)
(***************************************************************************)
\* the ids of the stored rows, in storage order
StoredIds == [i \in 1..Len(healthIntegrations) |-> healthIntegrations[i].id]

\* rows whose token column is empty
EmptyRows ==
  { i \in 1..Len(healthIntegrations) :
      healthIntegrations[i].encryptedTokens.text = "" }

\* C23: for a record set that does not change during the run the scan
\* terminates and rotateKeys() returns; the loop has then taken up every
\* record exactly once, and migratedCount + failedCount + the number of
\* records with empty ciphertext is the number of records.
ScanTerminates ==
  /\ Scanning("A") ~> (pc["A"] = "returned")
  /\ [](ScanDone("A") =>
          /\ visited["A"] = StoredIds
          /\ migratedCount["A"] + failedCount["A"] + Cardinality(EmptyRows)
               = Len(healthIntegrations))
  /\ [](Scanning("A") => Len(visited["A"]) <= Len(healthIntegrations))

\* a scan of three batches (the last one empty) has returned, having
\* migrated, failed on and skipped one record each
ScanTerminatesWitness ==
  /\ pc["A"] = "returned"
  /\ Len(visited["A"]) > batchSize
  /\ migratedCount["A"] = 1
  /\ failedCount["A"] = 1
  /\ Cardinality(EmptyRows) = 1

(***************************************************************************)
(* Rotation while the application writes.                                  *)
(***************************************************************************)
\* C24: when the application has stored tokens for a record, before,
\* during or after the run's handling of that record, the record holds
\* those tokens once rotateKeys() has returned: the run never puts back an
\* envelope made from the row as it read it earlier.
LiveWriteKept ==
  pc["A"] = "returned" =>
    \A i \in 1..Len(healthIntegrations) :
      healthIntegrations[i].id \in DOMAIN appWrites =>
        StoredEnvelope(i).encrypted.p = appWrites[healthIntegrations[i].id]

(***************************************************************************)
(* rotateKeys() without a configured key.                                  *)
(***************************************************************************)
\* C25: with no ENCRYPTION_KEY configured (and the database available) a
\* call of rotateKeys() throws the configuration error and nothing else
\* happens: no KeyRecord is inserted, no record is read or updated and no
\* isPrimary flag changes.
FailsBeforeAnyChange ==
  [][ENCRYPTION_KEY = "" =>
       /\ encryptionKeys' = encryptionKeys
       /\ healthIntegrations' = healthIntegrations
       /\ integrations' = integrations
       /\ visited' = visited
       /\ \A p \in Procs :
            /\ pc'[p] \in {"idle", "thrown"}
            /\ pc[p] = "idle" /\ pc'[p] # "idle" => thrown'[p] = ErrNoKey
    ]_vars

\* a call made without a key has thrown; there were records to migrate
FailsBeforeAnyChangeWitness ==
  /\ ENCRYPTION_KEY = ""
  /\ pc["A"] = "thrown"
  /\ thrown["A"] = ErrNoKey
  /\ \E i \in 1..Len(healthIntegrations) :
       ParseEnvelope(healthIntegrations[i].encryptedTokens).ok
  /\ Len(encryptionKeys) = 1

(***************************************************************************)
(* A second rotation over records a first one migrated.                    *)
(***************************************************************************)
\* rows that an earlier call had migrated when the call of p began
MigratedBefore(p) ==
  { i \in 1..Len(startStore[p]) : startStore[p][i].tokenMetadata.keyId # "" }

\* C26: a record that one call of rotateKeys() counted in migratedCount is
\* migrated by the next call as well (unless the database rejects the
\* update), whether its envelope has a context or not.
RemigratedByNextRun ==
  \A p \in Procs :
    ScanDone(p) =>
      \A i \in MigratedBefore(p) :
        startStore[p][i].id \notin storeFailed[p] => i \in MigratedRows(p)

(***************************************************************************)
(* Two calls of rotateKeys() at once.                                      *)
(***************************************************************************)
\* C27: two calls of rotateKeys() that overlap in any way, begun on a
\* registry with exactly one primary key, leave exactly one primary key
\* once both have returned.
OnePrimaryAfterBothReturned ==
  (\A p \in Procs : pc[p] = "returned" /\ Cardinality(Primaries(startKeys[p])) = 1)
    => Cardinality(Primaries(encryptionKeys)) = 1

(***************************************************************************)
(* What a run changes in health_integrations.                              *)
(***************************************************************************)
\* rows that differ from the store the call of p began with
ModifiedRows(p) ==
  { i \in 1..Len(healthIntegrations) : healthIntegrations[i] # startStore[p][i] }

\* C28: at every point of a run the records it has modified are as many as
\* it has counted in migratedCount; a modified record had a non-empty token
\* column and now has a new envelope and tokenMetadata.keyId / rotatedAt of
\* this run, its other columns as before; every other record (skipped for an
\* empty column, failed, or not reached yet) is as the run found it; at the
\* end the empty records are counted neither as migrated nor as failed.
FrameEffect ==
  \A p \in {"A"} :
    pc[p] \in {"select", "process", "cutover", "promote", "returned"} =>
      LET modified == ModifiedRows(p)
      IN  /\ Len(healthIntegrations) = Len(startStore[p])
          /\ Cardinality(modified) = migratedCount[p]
          /\ \A i \in modified :
               /\ startStore[p][i].encryptedTokens.text # ""
               /\ startStore[p][i].id \in
                    { visited[p][j] : j \in 1..Len(visited[p]) }
               /\ healthIntegrations[i].encryptedTokens
                    # startStore[p][i].encryptedTokens
               /\ healthIntegrations[i].tokenMetadata.keyId = newKeyId[p]
               /\ healthIntegrations[i].tokenMetadata.rotatedAt = now
               /\ [healthIntegrations[i] EXCEPT
                     !.encryptedTokens = startStore[p][i].encryptedTokens,
                     !.tokenMetadata = startStore[p][i].tokenMetadata]
                    = startStore[p][i]
          /\ ScanDone(p) =>
               migratedCount[p] + failedCount[p]
                 = Cardinality(NonEmptyRows(p))

\* a run has migrated two records and skipped an empty one, which is as
\* it was
FrameEffectWitness ==
  /\ pc["A"] = "cutover"
  /\ migratedCount["A"] = 2
  /\ failedCount["A"] = 0
  /\ \E i \in 1..Len(healthIntegrations) :
       /\ healthIntegrations[i].encryptedTokens.text = ""
       /\ healthIntegrations[i] = startStore["A"][i]

(***************************************************************************)
(* Ownership in healthRouter.                                              *)
(***************************************************************************)
\* the integrations of store that belong to someone other than user
ForeignRows(store, user) == SelectSeq(store, LAMBDA r : r.userId # user)

\* the ids of the integrations that belong to someone other than user
ForeignIds(user) ==
  { healthIntegrations[i].id :
      i \in { j \in 1..Len(healthIntegrations) :
                healthIntegrations[j].userId # user } }

\* the rows of a metrics or log table that belong to the integrations ids
RowsOf(table, ids) == SelectSeq(table, LAMBDA r : r.integrationId \in ids)

\* user has an integration with this id
Owns(user, integrationId) ==
  \E i \in 1..Len(healthIntegrations) :
    /\ healthIntegrations[i].id = integrationId
    /\ healthIntegrations[i].userId = user

\* C29: a call of getIntegration, updateSyncFrequency, toggleSync,
\* triggerSync, getSyncHistory or deleteIntegration for an integration that
\* does not exist or belongs to another user throws 'Integration not found',
\* changes no integration, metric or sync log, and does nothing further; and
\* no step of a user's call changes or deletes an integration of another
\* user, or a metric or sync log of such an integration.
OwnershipEnforced ==
  [][\A s \in Sessions :
       calls'[s] # calls[s] =>
         LET user == calls'[s].user
             foreign == ForeignIds(user)
         IN  /\ ForeignRows(healthIntegrations', user)
                  = ForeignRows(healthIntegrations, user)
             /\ RowsOf(healthMetrics', foreign) = RowsOf(healthMetrics, foreign)
             /\ RowsOf(syncLogs', foreign) = RowsOf(syncLogs, foreign)
             /\ calls[s].stage = "thrown" => calls'[s].n = calls[s].n + 1
             /\ ( /\ calls'[s].n = calls[s].n + 1
                  /\ calls'[s].op # "getIntegrations"
                  /\ ~Owns(user, calls'[s].integrationId) ) =>
                  /\ calls'[s].stage = "thrown"
                  /\ calls'[s].error = ErrNotFound
                  /\ UNCHANGED <<healthIntegrations, healthMetrics, syncLogs>>
    ]_vars

\* user 1 has deleted its own integration; its call to delete the
\* integration of user 2 has thrown, and that integration, its metric and
\* its sync log are in place
OwnershipEnforcedWitness ==
  \E s, t \in Sessions :
    /\ calls[s].op = "deleteIntegration" /\ calls[s].user = 1
    /\ calls[s].integrationId = "int1" /\ calls[s].stage = "returned"
    /\ calls[t].op = "deleteIntegration" /\ calls[t].user = 1
    /\ calls[t].integrationId = "int2" /\ calls[t].stage = "thrown"
    /\ calls[t].error = ErrNotFound
    /\ healthIntegrations = << RouterRow(2, ConnectedTokens) >>
    /\ healthMetrics = << MetricRow(2) >>
    /\ syncLogs = << SyncLogRow(2, "int2") >>

(***************************************************************************)
(* What the integration queries return.                                    *)
(***************************************************************************)
\* the store with every token column emptied
Scrubbed(store) ==
  [i \in 1..Len(store) |-> [store[i] EXCEPT !.encryptedTokens = EmptyText]]

\* the rows a returned query of integrations would have returned had the
\* store been store
RowsReturnedFrom(store, call) ==
  IF call.op = "getIntegrations"
  THEN QueryIntegrations(store, call.user)
  ELSE LET found == SelectOwned(store, call.integrationId, call.user)
       IN  [i \in 1..Len(found) |-> Redacted(found[i])]

\* C30: what getIntegrations and getIntegration return is what they would
\* return from the store with every encryptedTokens replaced, so stores
\* that differ only in encryptedTokens give the same response; no returned
\* row carries an encryptedTokens value.
NoTokensReturned ==
  \A s \in Sessions :
    calls[s].stage = "returned" =>
      /\ calls[s].rows = RowsReturnedFrom(Scrubbed(healthIntegrations), calls[s])
      /\ \A i \in 1..Len(calls[s].rows) :
           calls[s].rows[i].encryptedTokens = UndefinedTokens

\* getIntegration has returned the caller's integration, whose token column
\* holds an envelope; getIntegrations has returned in the other session
NoTokensReturnedWitness ==
  \E s, t \in Sessions :
    /\ calls[s].op = "getIntegration" /\ calls[s].stage = "returned"
    /\ Len(calls[s].rows) = 1
    /\ \E i \in 1..Len(healthIntegrations) :
         /\ healthIntegrations[i].id = calls[s].integrationId
         /\ ParseEnvelope(healthIntegrations[i].encryptedTokens).ok
    /\ calls[t].op = "getIntegrations" /\ calls[t].stage = "returned"
    /\ Len(calls[t].rows) = 1

=============================================================================
